---- MODULE Spec2Model ----
(***************************************************************************)
(* Verification model of the FRP rebar durability pipeline (src/frp-hyper):*)
(* the preprocessing chain of FRPDataPreprocessor, the 7:2:1 partitioner   *)
(* of ModelTrainer and the inference path of FRPPredictor.                 *)
(***************************************************************************)
EXTENDS Integers, Sequences, FiniteSets, TLC

(***************************************************************************)
(* IEEE-754 binary64 arithmetic on non-negative values.  Python floats and *)
(* numpy.float64 are binary64; the pipeline multiplies, divides and rounds *)
(* them up (ceil), so the model keeps the 53-bit significand.  A natural   *)
(* number is a little-endian sequence of limbs in base 2^15 without        *)
(* leading zero limbs (<<>> is 0); a float is [m |-> significand,          *)
(* e |-> exponent] with value m * 2^e and m = 0 or 2^52 <= m < 2^53.       *)
(***************************************************************************)
LimbBits == 15

LimbBase == 32768

SignificandBits == 53

RECURSIVE Pow2(_)
Pow2(k) == IF k = 0 THEN 1 ELSE 2 * Pow2(k - 1)

Limb(a, i) == IF i <= Len(a) THEN a[i] ELSE 0

RECURSIVE BNorm(_)
BNorm(a) ==
    IF a = <<>> THEN <<>>
    ELSE IF a[Len(a)] = 0 THEN BNorm(SubSeq(a, 1, Len(a) - 1)) ELSE a

RECURSIVE BFromInt(_)
BFromInt(n) ==
    IF n = 0 THEN <<>> ELSE <<n % LimbBase>> \o BFromInt(n \div LimbBase)

RECURSIVE BToIntFrom(_, _)
BToIntFrom(a, i) ==
    IF i > Len(a) THEN 0 ELSE a[i] + LimbBase * BToIntFrom(a, i + 1)

BToInt(a) == BToIntFrom(a, 1)

RECURSIVE BAddC(_, _, _, _)
BAddC(a, b, i, c) ==
    IF i > Len(a) /\ i > Len(b)
    THEN (IF c = 0 THEN <<>> ELSE <<c>>)
    ELSE LET s == Limb(a, i) + Limb(b, i) + c
         IN  <<s % LimbBase>> \o BAddC(a, b, i + 1, s \div LimbBase)

BAdd(a, b) == BAddC(a, b, 1, 0)

\* a - b for a >= b
RECURSIVE BSubC(_, _, _, _)
BSubC(a, b, i, c) ==
    IF i > Len(a) THEN <<>>
    ELSE LET d == a[i] - Limb(b, i) - c
         IN  IF d < 0 THEN <<d + LimbBase>> \o BSubC(a, b, i + 1, 1)
             ELSE <<d>> \o BSubC(a, b, i + 1, 0)

BSub(a, b) == BNorm(BSubC(a, b, 1, 0))

\* -1, 0, 1 as a < b, a = b, a > b
RECURSIVE BCmpFrom(_, _, _)
BCmpFrom(a, b, i) ==
    IF i = 0 THEN 0
    ELSE IF a[i] < b[i] THEN -1
    ELSE IF a[i] > b[i] THEN 1
    ELSE BCmpFrom(a, b, i - 1)

BCmp(a, b) ==
    IF Len(a) < Len(b) THEN -1
    ELSE IF Len(a) > Len(b) THEN 1
    ELSE BCmpFrom(a, b, Len(a))

RECURSIVE BMulLimbC(_, _, _, _)
BMulLimbC(a, d, i, c) ==
    IF i > Len(a) THEN (IF c = 0 THEN <<>> ELSE <<c>>)
    ELSE LET p == a[i] * d + c
         IN  <<p % LimbBase>> \o BMulLimbC(a, d, i + 1, p \div LimbBase)

BMulLimb(a, d) == IF d = 0 THEN <<>> ELSE BMulLimbC(a, d, 1, 0)

RECURSIVE BMulFrom(_, _, _)
BMulFrom(a, b, i) ==
    IF i > Len(a) THEN <<>>
    ELSE BAdd(BMulLimb(b, a[i]),
              LET r == BMulFrom(a, b, i + 1)
              IN  IF r = <<>> THEN <<>> ELSE <<0>> \o r)

BMul(a, b) == BNorm(BMulFrom(a, b, 1))

RECURSIVE Zeros(_)
Zeros(k) == IF k = 0 THEN <<>> ELSE <<0>> \o Zeros(k - 1)

\* a * 2^s
BShl(a, s) ==
    IF a = <<>> THEN <<>>
    ELSE Zeros(s \div LimbBits) \o BMulLimb(a, Pow2(s % LimbBits))

\* floor(a / 2^r) for r < LimbBits
RECURSIVE BShrBitsFrom(_, _, _)
BShrBitsFrom(a, r, i) ==
    IF i > Len(a) THEN <<>>
    ELSE <<(a[i] \div Pow2(r)) + (Limb(a, i + 1) % Pow2(r)) * Pow2(LimbBits - r)>>
         \o BShrBitsFrom(a, r, i + 1)

\* floor(a / 2^s)
BShr(a, s) ==
    LET k == s \div LimbBits
    IN  IF k >= Len(a) THEN <<>>
        ELSE BNorm(BShrBitsFrom(SubSeq(a, k + 1, Len(a)), s % LimbBits, 1))

RECURSIVE BitLenInt(_)
BitLenInt(n) == IF n = 0 THEN 0 ELSE 1 + BitLenInt(n \div 2)

BBitLen(a) ==
    IF a = <<>> THEN 0 ELSE LimbBits * (Len(a) - 1) + BitLenInt(a[Len(a)])

\* bit number k (0 = least significant) of a
BBit(a, k) == (Limb(a, (k \div LimbBits) + 1) \div Pow2(k % LimbBits)) % 2

\* a mod 2^s # 0
BLowNonZero(a, s) == BShl(BShr(a, s), s) # a

BOdd(a) == a # <<>> /\ a[1] % 2 = 1

\* the largest d with d * b <= r, for r < b * 2^15 and the top limb of b at
\* least 2^14: the quotient of the two top limbs of r by the top limb of b
\* is that digit or exceeds it by at most 2 (Knuth, TAOCP 4.3.1, Theorem B)
BDigit(r, b) ==
    LET n   == Len(b)
        est == (Limb(r, n + 1) * LimbBase + Limb(r, n)) \div b[n]
        hi  == IF est > LimbBase - 1 THEN LimbBase - 1 ELSE est
    IN  IF BCmp(BMulLimb(b, hi), r) <= 0 THEN hi
        ELSE IF BCmp(BMulLimb(b, hi - 1), r) <= 0 THEN hi - 1
        ELSE hi - 2

\* <<quotient, remainder>> of a / b by long division in base 2^15, for b
\* with its top limb at least 2^14
RECURSIVE BDivModFrom(_, _, _, _, _)
BDivModFrom(a, b, i, q, r) ==
    IF i = 0 THEN <<BNorm(q), r>>
    ELSE LET r2 == BNorm(<<a[i]>> \o r)
             d  == BDigit(r2, b)
         IN  IF d = 0 THEN BDivModFrom(a, b, i - 1, <<0>> \o q, r2)
             ELSE BDivModFrom(a, b, i - 1, <<d>> \o q, BSub(r2, BMulLimb(b, d)))

\* <<quotient, remainder>> of a / b (b # 0): both are scaled by the power
\* of two that brings the top limb of b to 2^14 or more
BDivMod(a, b) ==
    LET s  == LimbBits - BitLenInt(b[Len(b)])
        a2 == BShl(a, s)
        qr == BDivModFrom(a2, BShl(b, s), Len(a2), <<>>, <<>>)
    IN  <<qr[1], BShr(qr[2], s)>>

FZero == [m |-> <<>>, e |-> 0]

\* round-to-nearest-even of m * 2^e to a 53-bit significand
FRound(m, e) ==
    LET L == BBitLen(m)
    IN  IF m = <<>> THEN FZero
        ELSE IF L <= SignificandBits
        THEN [m |-> BShl(m, SignificandBits - L), e |-> e - (SignificandBits - L)]
        ELSE LET s  == L - SignificandBits
                 q  == BShr(m, s)
                 up == BBit(m, s - 1) = 1 /\ (BLowNonZero(m, s - 1) \/ BOdd(q))
                 q2 == IF up THEN BAdd(q, <<1>>) ELSE q
             IN  IF BBitLen(q2) > SignificandBits
                 THEN [m |-> BShr(q2, 1), e |-> e + s + 1]
                 ELSE [m |-> q2, e |-> e + s]

FFromInt(n) == FRound(BFromInt(n), 0)

FMul(x, y) ==
    IF x.m = <<>> \/ y.m = <<>> THEN FZero
    ELSE FRound(BMul(x.m, y.m), x.e + y.e)

FAdd(x, y) ==
    IF x.m = <<>> THEN y
    ELSE IF y.m = <<>> THEN x
    ELSE LET e == IF x.e < y.e THEN x.e ELSE y.e
         IN  FRound(BAdd(BShl(x.m, x.e - e), BShl(y.m, y.e - e)), e)

\* x - y for x >= y
FSub(x, y) ==
    IF y.m = <<>> THEN x
    ELSE LET e == IF x.e < y.e THEN x.e ELSE y.e
         IN  FRound(BSub(BShl(x.m, x.e - e), BShl(y.m, y.e - e)), e)

\* x / y for y > 0; the remainder is folded into a sticky low bit
FDiv(x, y) ==
    IF y.m # <<>> /\ x.m = <<>> THEN FZero
    ELSE LET qr == BDivMod(BShl(x.m, SignificandBits + 2), y.m)
             e  == x.e - y.e - (SignificandBits + 2) - 1
         IN  IF qr[2] = <<>> THEN FRound(BShl(qr[1], 1), e)
             ELSE FRound(BAdd(BShl(qr[1], 1), <<1>>), e)

\* the float a decimal literal num/den denotes (correctly rounded)
FLit(num, den) == FDiv(FFromInt(num), FFromInt(den))

\* math.ceil / int(np.ceil(.)) of a float, as an integer
FCeil(x) ==
    IF x.m = <<>> THEN 0
    ELSE IF x.e >= 0 THEN BToInt(BShl(x.m, x.e))
    ELSE BToInt(BShr(x.m, 0 - x.e)) + (IF BLowNonZero(x.m, 0 - x.e) THEN 1 ELSE 0)

\* r with limb number i (1 = least significant) set to d
BWithLimb(r, i, d) == BNorm([j \in 1..(IF Len(r) > i THEN Len(r) ELSE i) |->
                               IF j = i THEN d ELSE Limb(r, j)])

\* the largest d in lo..hi with (r with limb i set to d)^2 <= n
RECURSIVE SqrtDigit(_, _, _, _, _)
SqrtDigit(n, r, i, lo, hi) ==
    IF lo = hi THEN lo
    ELSE LET mid == (lo + hi + 1) \div 2
             c   == BWithLimb(r, i, mid)
         IN  IF BCmp(BMul(c, c), n) <= 0
             THEN SqrtDigit(n, r, i, mid, hi)
             ELSE SqrtDigit(n, r, i, lo, mid - 1)

\* floor(sqrt(n)), one limb at a time from the most significant
RECURSIVE BSqrtFrom(_, _, _)
BSqrtFrom(n, r, i) ==
    IF i = 0 THEN r
    ELSE BSqrtFrom(n, BWithLimb(r, i, SqrtDigit(n, r, i, 0, LimbBase - 1)), i - 1)

BSqrt(n) == BSqrtFrom(n, <<>>, (Len(n) + 1) \div 2)

\* np.sqrt(x), correctly rounded
FSqrt(x) ==
    IF x.m = <<>> THEN FZero
    ELSE LET odd == x.e % 2 = 1
             n   == BShl(x.m, 58 + (IF odd THEN 1 ELSE 0))
             e   == (IF odd THEN x.e - 1 ELSE x.e) - 58
             r   == BSqrt(n)
             q   == BAdd(BShl(r, 1), IF BMul(r, r) = n THEN <<>> ELSE <<1>>)
         IN  FRound(q, (e \div 2) - 1)

\* np.pi, the double 0x1.921fb54442d18p+1
np_pi == [m |-> <<11544, 10376, 2029, 201>>, e |-> -51]

(***************************************************************************)
(* Cells of a pandas DataFrame as df.loc[idx, col] returns them.           *)
(*   "nan"    the float NaN (a float for isinstance, missing for pd.isna)  *)
(*   "float"  a Python float or numpy.float64 (a subclass of float)        *)
(*   "int"    a Python int, found in object columns                        *)
(*   "int64"  a numpy.int64, the scalar of an integer column; it is not an *)
(*            instance of int or float                                     *)
(*   "str"    a string, kept as its sequence of characters                 *)
(***************************************************************************)
NaN == [t |-> "nan"]

Str(s) == [t |-> "str", s |-> s]

Flt(f) == [t |-> "float", f |-> f]

PyInt(n) == [t |-> "int", n |-> n]

NpInt(n) == [t |-> "int64", n |-> n]

Num(n) == Flt(FFromInt(n))

\* isinstance(value, str)
IsStr(v) == v.t = "str"

\* isinstance(value, (int, float))
IsIntOrFloat(v) == v.t \in {"int", "float", "nan"}

\* pd.isna(value)
IsNa(v) == v.t = "nan"

\* isinstance(value, (int, float)) and not pd.isna(value)
IsNumber(v) == IsIntOrFloat(v) /\ ~IsNa(v)

\* float(value) of a cell that passed IsNumber
AsFloat(v) == IF v.t = "float" THEN v.f ELSE FFromInt(v.n)

\* a float below zero: its magnitude f and the sign
NegFlt(f) == [t |-> "float", f |-> f, sign |-> 1]

\* x < 0 for a cell that is an int or a float
IsNegative(v) == IF v.t = "float" THEN "sign" \in DOMAIN v
                 ELSE v.t \in {"int", "int64"} /\ v.n < 0

\* abs(float(value)) of a cell that passed IsNumber
Magnitude(v) == IF v.t = "float" THEN v.f
                ELSE FFromInt(IF v.n < 0 THEN -v.n ELSE v.n)

\* x > 0 for a cell that is an int or a float (NaN > 0 is False)
IsPositive(v) == IsNumber(v) /\ ~IsNegative(v) /\ AsFloat(v) # FZero

\* numeric equality value == n, whatever the numeric type
NumEq(v, n) == v.t \in {"int", "int64", "float"} /\
               (IF v.t = "float" THEN v.f = FFromInt(n) /\ ~IsNegative(v) ELSE v.n = n)

\* dtype of a column: int64 when every cell is a numpy integer, float64
\* when every cell is a float or NaN, object otherwise
Dtype(d, col) ==
    LET kinds == {d.rows[i][col].t : i \in DOMAIN d.rows}
    IN  IF kinds \subseteq {"int64"} THEN "int64"
        ELSE IF kinds \subseteq {"float", "nan"} THEN "float64"
        ELSE "object"

\* a table pandas can hold: numpy integers only in integer columns, Python
\* ints only in object columns
WellTyped(d) ==
    \A col \in d.columns :
        LET kinds == {d.rows[i][col].t : i \in DOMAIN d.rows}
        IN  /\ "int64" \in kinds => kinds = {"int64"}
            /\ "int" \in kinds => "str" \in kinds

\* df.loc[idx, col] = value, with the cast pandas applies for the column
SetCell(d, idx, col, value) ==
    LET dt == Dtype(d, col)
        stored == IF value.t = "int" /\ dt = "float64" THEN Flt(FFromInt(value.n))
                  ELSE IF value.t = "int" /\ dt = "int64" THEN NpInt(value.n)
                  ELSE value
        column == IF dt = "int64" /\ value.t \in {"float", "nan"}
                  THEN [d EXCEPT !.rows = [i \in DOMAIN d.rows |->
                           [d.rows[i] EXCEPT ![col] = Flt(FFromInt(@.n))]]]
                  ELSE d
    IN  [column EXCEPT !.rows[idx][col] = stored]


(***************************************************************************)
(* Strings                                                                 *)
(***************************************************************************)
Digits == {"0", "1", "2", "3", "4", "5", "6", "7", "8", "9"}

DigitVal(c) ==
    CASE c = "0" -> 0 [] c = "1" -> 1 [] c = "2" -> 2 [] c = "3" -> 3
      [] c = "4" -> 4 [] c = "5" -> 5 [] c = "6" -> 6 [] c = "7" -> 7
      [] c = "8" -> 8 [] c = "9" -> 9

\* c in s
HasChar(c, s) == \E i \in DOMAIN s : s[i] = c

\* needle in hay
Contains(needle, hay) ==
    \E i \in 0..(Len(hay) - Len(needle)) :
        \A j \in DOMAIN needle : hay[i + j] = needle[j]

UpperToLower ==
    [c \in {"A", "B", "C", "D", "E", "G", "M", "N", "O", "P", "R", "S", "T", "U", "V", "W"} |->
        CASE c = "A" -> "a" [] c = "B" -> "b" [] c = "C" -> "c" [] c = "D" -> "d"
          [] c = "E" -> "e" [] c = "G" -> "g" [] c = "M" -> "m" [] c = "N" -> "n"
          [] c = "O" -> "o" [] c = "P" -> "p" [] c = "R" -> "r" [] c = "S" -> "s"
          [] c = "T" -> "t" [] c = "U" -> "u" [] c = "V" -> "v" [] c = "W" -> "w"]

\* s.lower()
Lower(s) == [i \in DOMAIN s |->
                IF s[i] \in DOMAIN UpperToLower THEN UpperToLower[s[i]] ELSE s[i]]

\* index of the first position >= i of s that does not hold c
RECURSIVE SkipRun(_, _, _)
SkipRun(s, i, c) ==
    IF i <= Len(s) /\ s[i] \in c THEN SkipRun(s, i + 1, c) ELSE i

RECURSIVE DigitsToInt(_, _)
DigitsToInt(s, acc) ==
    IF s = <<>> THEN acc ELSE DigitsToInt(Tail(s), 10 * acc + DigitVal(Head(s)))

RECURSIVE Pow10(_)
Pow10(k) == IF k = 0 THEN 1 ELSE 10 * Pow10(k - 1)

\* float(x) of a string: [ok |-> FALSE] stands for ValueError.  Accepted
\* here: digits with at most one decimal point and at least one digit.
ParseFloat(x) ==
    LET dots   == {i \in DOMAIN x : x[i] = "."}
        digits == SelectSeq(x, LAMBDA c : c \in Digits)
        frac   == IF dots = {} THEN 0 ELSE Len(x) - (CHOOSE i \in dots : TRUE)
    IN  IF /\ \A i \in DOMAIN x : x[i] \in Digits \cup {"."}
           /\ Cardinality(dots) <= 1
           /\ digits # <<>>
        THEN [ok |-> TRUE, f |-> FLit(DigitsToInt(digits, 0), Pow10(frac))]
        ELSE [ok |-> FALSE]

\* decimal digits of a natural number
RECURSIVE IntToDigits(_)
IntToDigits(n) ==
    LET d == <<"0", "1", "2", "3", "4", "5", "6", "7", "8", "9">>
    IN  IF n < 10 THEN <<d[n + 1]>> ELSE IntToDigits(n \div 10) \o <<d[(n % 10) + 1]>>

\* str(value): the text of a string, 'nan' for NaN, the digits of an
\* integer, digits and '.0' for an integer-valued float
StrOf(v) ==
    CASE v.t = "str"   -> v.s
      [] v.t = "nan"   -> <<"n", "a", "n">>
      [] v.t = "float" -> IntToDigits(FCeil(v.f)) \o <<".", "0">>
      [] OTHER         -> IntToDigits(v.n)

(***************************************************************************)
(* State.  data_ori, df: the raw table preprocess_data received and the    *)
(* table as the chain has transformed it so far; stage: the position in    *)
(* the chain; prev_df: the table the last step received; passes: how often *)
(* the normalizer has run.  A table is [columns, rows] with rows a         *)
(* sequence of records over the columns.                                   *)
(***************************************************************************)
VARIABLES data_ori, df, prev_df, stage, passes

preVars == <<data_ori, df, prev_df, stage, passes>>

MapCells(d, F(_, _)) ==
    [d EXCEPT !.rows = [i \in DOMAIN d.rows |->
                           [c \in d.columns |-> F(c, d.rows[i][c])]]]

(***************************************************************************)
(* Missing-Value Normalizer                                                *)
(***************************************************************************)
missing_markers_chained ==
    <<"S", "M", "D">> :> NaN
    @@ <<"s", "m", "d">> :> NaN
    @@ <<"N", "o", "t", "r", "e", "p", "o", "r", "t", "e", "d">>
          :> Str(<<"N", "o", "t", " ", "r", "e", "p", "o", "r", "t", "e", "d">>)
    @@ <<"n", "o", "t", " ", "r", "e", "p", "o", "r", "t", "e", "d">>
          :> Str(<<"U", "n", "k", "n", "o", "w", "n">>)
    @@ <<"N", "o", "t", " ", "r", "e", "p", "o", "r", "t", "e", "d">>
          :> Str(<<"U", "n", "k", "n", "o", "w", "n">>)
    @@ <<"N", "O", "T", " ", "R", "E", "P", "O", "R", "T", "E", "D">>
          :> Str(<<"U", "n", "k", "n", "o", "w", "n">>)

missing_markers ==
    <<"S", "M", "D">> :> NaN
    @@ <<"s", "m", "d">> :> NaN
    @@ <<"N", "o", "t", "r", "e", "p", "o", "r", "t", "e", "d">>
          :> Str(<<"U", "n", "k", "n", "o", "w", "n">>)
    @@ <<"n", "o", "t", " ", "r", "e", "p", "o", "r", "t", "e", "d">>
          :> Str(<<"U", "n", "k", "n", "o", "w", "n">>)
    @@ <<"N", "o", "t", " ", "r", "e", "p", "o", "r", "t", "e", "d">>
          :> Str(<<"U", "n", "k", "n", "o", "w", "n">>)
    @@ <<"N", "O", "T", " ", "R", "E", "P", "O", "R", "T", "E", "D">>
          :> Str(<<"U", "n", "k", "n", "o", "w", "n">>)

\* Series.replace(missing_markers) on one cell: exact match of the value
ReplaceMarker(c, v) ==
    IF IsStr(v) /\ v.s \in DOMAIN missing_markers THEN missing_markers[v.s] ELSE v

change_smd_to_nan(d) == MapCells(d, ReplaceMarker)

(***************************************************************************)
(* Range Resolver                                                          *)
(***************************************************************************)
numeric_columns ==
    {"glass_transition_temperature", "glass_transition_temperature_run_2",
     "cure_ratio", "Fiber_content_weight", "Fiber_content_volume",
     "Void_content", "diameter", "average_area", "nominal_area",
     "num_1", "temperature", "pH_of_concrete", "strength_of_concrete",
     "crack", "pH_1", "pHafter", "RH_1", "field_average_humidity",
     "field_average_temperature", "temp", "temp2", "value_load",
     "Value1_1", "COV1_1", "Value2_1", "COV2_1", "Value3_1", "COV3_1"}

\* One match of the pattern the source passes to re.findall, r"\\d+\\.?\\d*".
\* In a raw string each \\ is an escaped backslash, so the pattern reads:
\* a backslash, one or more letters d, a backslash, at most one arbitrary
\* character, a backslash, any number of letters d.  The result is the
\* index after the match that starts at i, or 0 without a match.
MatchAt(s, i) ==
    LET bs   == "\\"
        k    == SkipRun(s, i + 1, {"d"})
        at(j) == IF j <= Len(s) THEN s[j] ELSE ""
    IN  IF at(i) # bs \/ k = i + 1 \/ at(k) # bs THEN 0
        ELSE IF k + 1 <= Len(s) /\ at(k + 2) = bs
             THEN SkipRun(s, k + 3, {"d"})
             ELSE IF at(k + 1) = bs THEN SkipRun(s, k + 2, {"d"})
             ELSE 0

\* re.findall(pattern, value): the non-overlapping matches, left to right
RECURSIVE re_findall(_, _)
re_findall(s, i) ==
    IF i > Len(s) THEN <<>>
    ELSE LET e == MatchAt(s, i)
         IN  IF e = 0 THEN re_findall(s, i + 1)
             ELSE <<SubSeq(s, i, e - 1)>> \o re_findall(s, e)

RECURSIVE FSum(_)
FSum(fs) == IF fs = <<>> THEN FZero ELSE FAdd(fs[1], FSum(Tail(fs)))

\* np.mean of a non-empty list of floats
np_mean(fs) == FDiv(FSum(fs), FFromInt(Len(fs)))

\* the body of the loops of parse_range_to_mean for one cell; a ValueError
\* of float(x) leaves the cell as it is
ParseRangeCell(col, v) ==
    IF col \in numeric_columns /\ IsStr(v) /\ HasChar(",", v.s) /\ ~HasChar(":", v.s)
    THEN LET numbers == re_findall(v.s, 1)
             parsed  == [i \in DOMAIN numbers |-> ParseFloat(numbers[i])]
         IN  IF numbers # <<>> /\ \A i \in DOMAIN parsed : parsed[i].ok
             THEN Flt(np_mean([i \in DOMAIN parsed |-> parsed[i].f]))
             ELSE v
    ELSE v

parse_range_to_mean(d) == MapCells(d, ParseRangeCell)

(***************************************************************************)
(* Feature Derivation Engine: the per-row rules of create_selected_features*)
(***************************************************************************)
feature_columns ==
    <<"pH_of_condition_enviroment", "Chloride_ion", "concrete",
      "diameter", "load_value", "fiber_content", "Glass_or_Basalt",
      "Vinyl_ester_or_Epoxy", "condition_time", "Temperature",
      "Tensile_strength_retention", "surface_treatment",
      "max_strength", "glass_transition_temperature">>

\* Config.MATERIAL_PROPERTIES
MATERIAL_PROPERTIES ==
    [fiber_densities |->
        <<"G", "l", "a", "s", "s">> :> FLit(255, 100)
        @@ <<"C", "a", "r", "b", "o", "n">> :> FLit(184, 100)
        @@ <<"B", "a", "s", "a", "l", "t">> :> FLit(267, 100),
     matrix_densities |->
        <<"V", "i", "n", "y", "l", " ", "e", "s", "t", "e", "r">> :> FLit(109, 100)
        @@ <<"E", "p", "o", "x", "y">> :> FLit(11, 10)
        @@ <<"P", "o", "l", "y", "e", "s", "t", "e", "r">> :> FLit(138, 100)]

\* dict.get(key, default) with a cell as the key
DictGet(dict, key, default) ==
    IF IsStr(key) /\ key.s \in DOMAIN dict THEN dict[key.s] ELSE default

\* any(keyword in text for keyword in keywords)
AnyKeyword(keywords, text) == \E k \in DOMAIN keywords : Contains(keywords[k], text)

\* value == 'literal' for a cell
EqStr(v, lit) == IsStr(v) /\ v.s = lit

Has(d, col) == col \in d.columns

\* the first column of cols (a sequence) the predicate holds for, 0 if none
FirstCol(d, idx, cols, P(_)) ==
    LET hits == {k \in DOMAIN cols : Has(d, cols[k]) /\ P(d.rows[idx][cols[k]])}
    IN  IF hits = {} THEN 0 ELSE CHOOSE k \in hits : \A j \in hits : k <= j

Present(v) == IsStr(v) \/ IsNumber(v)

\* the value the scan of ingredient_1 leaves in Chloride_ion, were it to
\* store its outcome whatever the flag holds
Chloride_ion_reset(sea, by_ingredient) == IF by_ingredient THEN 1 ELSE 0

\* Chloride_ion at the end of the rule: 0 at line 214, set to 1 at line 287
\* (sea) and at line 303 (by_ingredient)
Chloride_ion(sea, by_ingredient) == IF sea \/ by_ingredient THEN 1 ELSE 0

\* the locals of _process_ph_and_chloride at its end
ph_and_chloride_locals(d, idx) ==
    LET row == d.rows[idx]
        concrete_keywords ==
            << <<"c", "o", "n", "c", "r", "e", "t", "e">>, <<"c", "o", "v", "e", "r">>,
               <<"c", "r", "a", "c", "k">>, <<"c", "e", "m", "e", "n", "t">>,
               <<"m", "o", "r", "t", "a", "r">> >>
        by_keyword == /\ Has(d, "Condition_environment")
                      /\ AnyKeyword(concrete_keywords,
                                    Lower(StrOf(row["Condition_environment"])))
        is_concrete_environment ==
            by_keyword \/ FirstCol(d, idx, <<"concrete", "crack", "cover", "cement">>, Present) # 0
        ph_concrete ==
            IF Has(d, "pH_of_concrete") /\ IsNumber(row["pH_of_concrete"])
            THEN AsFloat(row["pH_of_concrete"])
            ELSE FFromInt(13)
        direct == Has(d, "solution_condition") /\ IsNumber(row["solution_condition"])
        ph_columns == <<"pH_1", "pH", "ph", "PH">>
        ph_col == FirstCol(d, idx, ph_columns, IsNumber)
        ph_found == direct \/ ph_col # 0
        text1 == IF Has(d, "solution_condition")
                 THEN Lower(StrOf(row["solution_condition"])) ELSE <<>>
        solution_text == IF text1 = <<>> /\ Has(d, "ingredient_1")
                         THEN Lower(StrOf(row["ingredient_1"])) ELSE text1
        water_types ==
            << <<"t", "a", "p", " ", "w", "a", "t", "e", "r">>,
               <<"s", "e", "a", " ", "w", "a", "t", "e", "r">>,
               <<"s", "e", "a", "w", "a", "t", "e", "r">>,
               <<"d", "i", "s", "t", "i", "l", "l", "e", "d", " ", "w", "a", "t", "e", "r">>,
               <<"d", "e", "i", "o", "n", "i", "z", "e", "d", " ", "w", "a", "t", "e", "r">>,
               <<"d", "i", " ", "w", "a", "t", "e", "r">>,
               <<"p", "u", "r", "e", " ", "w", "a", "t", "e", "r">> >>
        sea == /\ ~is_concrete_environment /\ ~ph_found
               /\ AnyKeyword(water_types, solution_text)
               /\ Contains(<<"s", "e", "a">>, solution_text)
        ph_solution == IF direct THEN AsFloat(row["solution_condition"])
                       ELSE IF ph_col # 0 THEN AsFloat(row[ph_columns[ph_col]])
                       ELSE FFromInt(7)
        ph0 == IF is_concrete_environment THEN ph_concrete ELSE ph_solution
        final_ph == IF Has(d, "pHafter") /\ IsNumber(row["pHafter"])
                    THEN FDiv(FAdd(ph0, AsFloat(row["pHafter"])), FFromInt(2))
                    ELSE ph0
        chloride_keywords ==
            << <<"c", "l">>, <<"c", "h", "l", "o", "r", "i", "d", "e">>,
               <<"n", "a", "c", "l">>, <<"c", "a", "c", "l", "2">>,
               <<"m", "g", "c", "l", "2">>, <<"s", "a", "l", "t">> >>
        by_ingredient ==
            /\ Has(d, "ingredient_1")
            /\ AnyKeyword(chloride_keywords, Lower(StrOf(row["ingredient_1"])))
    IN  [is_concrete_environment |-> is_concrete_environment, ph_found |-> ph_found,
         sea |-> sea, by_ingredient |-> by_ingredient, final_ph |-> final_ph]

_process_ph_and_chloride(d, idx) ==
    CHOOSE o \in {SetCell(SetCell(d, idx, "Chloride_ion",
                                  PyInt(Chloride_ion(l.sea, l.by_ingredient))),
                          idx, "pH_of_condition_enviroment", Flt(l.final_ph))
                  : l \in {ph_and_chloride_locals(d, idx)}} : TRUE

_process_concrete_indicator(d, idx) ==
    LET concrete_indicator ==
            IF FirstCol(d, idx, <<"concrete", "crack", "cover">>, Present) # 0 THEN 1 ELSE 0
    IN  SetCell(d, idx, "concrete", PyInt(concrete_indicator))

_process_diameter(d, idx) ==
    IF Has(d, "diameter") /\ IsNumber(d.rows[idx]["diameter"])
    THEN SetCell(d, idx, "diameter", d.rows[idx]["diameter"])
    ELSE IF Has(d, "nominal_area") /\ IsPositive(d.rows[idx]["nominal_area"])
    THEN SetCell(d, idx, "diameter",
                 Flt(FMul(FFromInt(2),
                          FSqrt(FDiv(AsFloat(d.rows[idx]["nominal_area"]), np_pi)))))
    ELSE d

\* lines 345-365: the stress / strain conversion; uts and modulus are
\* above zero where a quotient is taken, which so has the sign of value
_process_load_stress_or_strain(d, idx) ==
    LET row == d.rows[idx]
        value == row["value_load"]
        uts == row["ultimate_tensile_strength"]
        modulus == row["tensile_modulus"]
        numeric == /\ Has(d, "stress_or_strain") /\ Has(d, "value_load")
                   /\ IsNumber(value)
        signed(f) == IF IsNegative(value) THEN NegFlt(f) ELSE Flt(f)
        load_value ==
            IF /\ numeric /\ EqStr(row["stress_or_strain"], <<"s", "t", "r", "e", "s", "s">>)
               /\ Has(d, "ultimate_tensile_strength") /\ IsPositive(uts)
            THEN signed(FDiv(Magnitude(value), AsFloat(uts)))
            ELSE IF /\ numeric
                    /\ EqStr(row["stress_or_strain"], <<"s", "t", "r", "a", "i", "n">>)
                    /\ Has(d, "tensile_modulus") /\ Has(d, "ultimate_tensile_strength")
                    /\ IsPositive(modulus) /\ IsPositive(uts)
            THEN signed(FDiv(FMul(FMul(Magnitude(value), FLit(1, 1000)), AsFloat(modulus)),
                             AsFloat(uts)))
            ELSE PyInt(0)
    IN  SetCell(d, idx, "load_value", load_value)

\* the rule without its early return for preloading records
_process_load_falls_through(d, idx) == _process_load_stress_or_strain(d, idx)

_process_load(d, idx) ==
    IF /\ Has(d, "type_of_load")
       /\ EqStr(d.rows[idx]["type_of_load"], <<"p", "r", "e", "l", "o", "a", "d", "i", "n", "g">>)
    THEN SetCell(d, idx, "load_value", PyInt(0))
    ELSE _process_load_stress_or_strain(d, idx)

\* raised: the division raises ZeroDivisionError, which it does when the
\* volume percentage is a negative Python int of an object column and the
\* denominator is 0.0; df is the frame the rule leaves.  V holds the
\* magnitudes of volume_content and of 100.0 - volume_content, part those of
\* the numerator and of the two terms of the denominator, which for a
\* negative volume_content is their difference.
_process_fiber_content(d, idx) ==
    IF Has(d, "Fiber_content_weight") /\ IsNumber(d.rows[idx]["Fiber_content_weight"])
    THEN [raised |-> FALSE,
          df |-> SetCell(d, idx, "fiber_content", d.rows[idx]["Fiber_content_weight"])]
    ELSE IF Has(d, "Fiber_content_volume") /\ IsNumber(d.rows[idx]["Fiber_content_volume"])
    THEN LET volume_content == d.rows[idx]["Fiber_content_volume"]
             negative == volume_content.t = "int" /\ volume_content.n < 0
             density_fiber ==
                 DictGet(MATERIAL_PROPERTIES.fiber_densities,
                         IF Has(d, "Fiber_type") THEN d.rows[idx]["Fiber_type"]
                         ELSE Str(<<"U", "n", "k", "n", "o", "w", "n">>), FFromInt(2))
             density_matrix ==
                 DictGet(MATERIAL_PROPERTIES.matrix_densities,
                         IF Has(d, "Matrix_type") THEN d.rows[idx]["Matrix_type"]
                         ELSE Str(<<"U", "n", "k", "n", "o", "w", "n">>), FLit(12, 10))
         IN  CHOOSE o \in
               {IF negative /\ part[2] = part[3]
                THEN [raised |-> TRUE, df |-> d]
                ELSE [raised |-> FALSE,
                      df |-> SetCell(d, idx, "fiber_content",
                                Flt(FDiv(part[1], IF negative THEN FSub(part[2], part[3])
                                                  ELSE FAdd(part[2], part[3]))))]
                : part \in
               {<<FMul(FMul(FFromInt(100), V[1]), density_fiber),
                  FMul(V[1], density_fiber), FMul(V[2], density_matrix)>>
                : V \in
               {IF negative
                THEN <<FFromInt(-volume_content.n), FFromInt(100 - volume_content.n)>>
                ELSE <<AsFloat(volume_content),
                       FSub(FFromInt(100), AsFloat(volume_content))>>}}} : TRUE
    ELSE [raised |-> FALSE, df |-> d]

\* the rule with the two fibre codes exchanged
_process_material_types_swapped(d, idx) ==
    LET d1 == IF Has(d, "Fiber_type") /\ EqStr(d.rows[idx]["Fiber_type"], <<"G", "l", "a", "s", "s">>)
              THEN SetCell(d, idx, "Glass_or_Basalt", PyInt(0))
              ELSE IF Has(d, "Fiber_type")
                      /\ EqStr(d.rows[idx]["Fiber_type"], <<"B", "a", "s", "a", "l", "t">>)
              THEN SetCell(d, idx, "Glass_or_Basalt", PyInt(1))
              ELSE d
    IN  IF Has(d1, "Matrix_type")
           /\ EqStr(d1.rows[idx]["Matrix_type"], <<"V", "i", "n", "y", "l", " ", "e", "s", "t", "e", "r">>)
        THEN SetCell(d1, idx, "Vinyl_ester_or_Epoxy", PyInt(1))
        ELSE IF Has(d1, "Matrix_type")
                /\ EqStr(d1.rows[idx]["Matrix_type"], <<"E", "p", "o", "x", "y">>)
        THEN SetCell(d1, idx, "Vinyl_ester_or_Epoxy", PyInt(0))
        ELSE d1

_process_material_types(d, idx) ==
    LET d1 == IF Has(d, "Fiber_type") /\ EqStr(d.rows[idx]["Fiber_type"], <<"G", "l", "a", "s", "s">>)
              THEN SetCell(d, idx, "Glass_or_Basalt", PyInt(1))
              ELSE IF Has(d, "Fiber_type")
                      /\ EqStr(d.rows[idx]["Fiber_type"], <<"B", "a", "s", "a", "l", "t">>)
              THEN SetCell(d, idx, "Glass_or_Basalt", PyInt(0))
              ELSE d
    IN  IF Has(d1, "Matrix_type")
           /\ EqStr(d1.rows[idx]["Matrix_type"], <<"V", "i", "n", "y", "l", " ", "e", "s", "t", "e", "r">>)
        THEN SetCell(d1, idx, "Vinyl_ester_or_Epoxy", PyInt(1))
        ELSE IF Has(d1, "Matrix_type")
                /\ EqStr(d1.rows[idx]["Matrix_type"], <<"E", "p", "o", "x", "y">>)
        THEN SetCell(d1, idx, "Vinyl_ester_or_Epoxy", PyInt(0))
        ELSE d1

_process_surface_treatment(d, idx) ==
    IF Has(d, "surface_treatment")
       /\ EqStr(d.rows[idx]["surface_treatment"], <<"s", "a", "n", "d", " ", "c", "o", "a", "t", "e", "d">>)
    THEN SetCell(d, idx, "surface_treatment", PyInt(0))
    ELSE IF Has(d, "surface_treatment")
            /\ EqStr(d.rows[idx]["surface_treatment"], <<"S", "m", "o", "o", "t", "h">>)
    THEN SetCell(d, idx, "surface_treatment", PyInt(1))
    ELSE d

\* feature_mappings as the dict iterates: <<new_col, old_col>>
feature_mappings ==
    << <<"condition_time", "time_field">>,
       <<"Temperature", "temperature">>,
       <<"Tensile_strength_retention", "retention1">>,
       <<"Target_parameter", "Target_parameter">>,
       <<"max_strength", "Value1_1">>,
       <<"glass_transition_temperature", "glass_transition_temperature">> >>

\* value.strip() != ''
NonBlank(s) == \E i \in DOMAIN s : s[i] # " "

\* one iteration of the loop of _process_other_features
MapFeature(d, idx, new_col, old_col) ==
    IF ~Has(d, old_col) THEN d
    ELSE LET value == d.rows[idx][old_col]
         IN  IF new_col = "Target_parameter" THEN SetCell(d, idx, new_col, value)
             ELSE IF IsNumber(value) THEN SetCell(d, idx, new_col, value)
             ELSE IF IsStr(value) /\ NonBlank(value.s) /\ ParseFloat(value.s).ok
             THEN SetCell(d, idx, new_col, Flt(ParseFloat(value.s).f))
             ELSE d

RECURSIVE _process_other_features_from(_, _, _)
_process_other_features_from(d, idx, k) ==
    IF k > Len(feature_mappings) THEN d
    ELSE _process_other_features_from(
             MapFeature(d, idx, feature_mappings[k][1], feature_mappings[k][2]), idx, k + 1)

_process_other_features(d, idx) == _process_other_features_from(d, idx, 1)

\* the body of the row loop of create_selected_features: the eight rules
\* inside one try, each on the table the rule before it has left; an
\* exception in rule 5 leaves the loop body (except Exception: continue)
ProcessRow(d, idx) ==
    CHOOSE d8 \in
       {IF d5.raised THEN d5.df
        ELSE CHOOSE d9 \in
               {_process_other_features(d7, idx) : d7 \in
               {_process_surface_treatment(d6, idx) : d6 \in
               {_process_material_types(d5.df, idx)}}} : TRUE
        : d5 \in
       {_process_fiber_content(d4, idx) : d4 \in
       {_process_load(d3, idx) : d3 \in
       {_process_diameter(d2, idx) : d2 \in
       {_process_concrete_indicator(d1, idx) : d1 \in
       {_process_ph_and_chloride(d, idx)}}}}}} : TRUE

\* every feature column the frame lacks is added, filled with NaN
InitFeatureColumns(d) ==
    LET columns == d.columns \cup {feature_columns[k] : k \in DOMAIN feature_columns}
    IN  [columns |-> columns,
         rows |-> [i \in DOMAIN d.rows |->
                     [c \in columns |->
                         IF c \in d.columns THEN d.rows[i][c] ELSE NaN]]]

RECURSIVE ProcessRowsFrom(_, _)
ProcessRowsFrom(d, idx) ==
    IF idx > Len(d.rows) THEN d ELSE ProcessRowsFrom(ProcessRow(d, idx), idx + 1)

create_selected_features(d) == ProcessRowsFrom(InitFeatureColumns(d), 1)

\* final_columns of create_model_dataset, each with the name the last step
\* gives it
final_columns ==
    << <<"Title", "Title">>,
       <<"Tensile_strength_retention", "Tensile strength retention">>,
       <<"pH_of_condition_enviroment", "pH of condition environment">>,
       <<"condition_time", "Exposure time">>,
       <<"fiber_content", "Fibre content">>,
       <<"Temperature", "Exposure temperature">>,
       <<"diameter", "Diameter">>,
       <<"concrete", "Presence of concrete">>,
       <<"load_value", "Load">>,
       <<"Chloride_ion", "Presence of chloride ion">>,
       <<"Glass_or_Basalt", "Fibre type">>,
       <<"Vinyl_ester_or_Epoxy", "Matrix type">>,
       <<"surface_treatment", "Surface treatment">>,
       <<"max_strength", "Strength of unconditioned rebar">> >>

\* model_data of create_model_dataset on a frame with the default index
\* 0..n-1: the value of column c in row i (Title is the index when df has
\* no Title, any other column df lacks is NaN)
model_data(d, i, c) ==
    IF Has(d, c) THEN d.rows[i][c]
    ELSE IF c = "Title" THEN NpInt(i - 1) ELSE NaN

\* the rows create_model_dataset keeps, tier after tier, regardless of the
\* threshold of 100 rows
retained_rows_strict(after_drop, has_target) == after_drop \cap has_target

\* the rows create_model_dataset keeps: those dropna(how='all') keeps when
\* they are 100 or more, else those that have the target, and when these
\* are fewer than 50 the rows dropna(subset=[target]) keeps
retained_rows(after_drop, has_target) ==
    IF Cardinality(after_drop) < 100
    THEN IF Cardinality(has_target) < 50 THEN has_target ELSE has_target
    ELSE after_drop

\* create_model_dataset(df): the final columns of the retained rows under
\* the new column names
create_model_dataset(d) ==
    LET n == Len(d.rows)
        after_drop == {i \in 1..n : \E k \in DOMAIN final_columns :
                                       ~IsNa(model_data(d, i, final_columns[k][1]))}
        has_target == {i \in 1..n : ~IsNa(model_data(d, i, "Tensile_strength_retention"))}
        kept == retained_rows(after_drop, has_target)
        index == SelectSeq([i \in 1..n |-> i], LAMBDA i : i \in kept)
    IN  [columns |-> {final_columns[k][2] : k \in DOMAIN final_columns},
         rows |-> [j \in DOMAIN index |->
                     [c \in {final_columns[k][2] : k \in DOMAIN final_columns} |->
                         LET k == CHOOSE k \in DOMAIN final_columns : final_columns[k][2] = c
                         IN  model_data(d, index[j], final_columns[k][1])]]]

(***************************************************************************)
(* Partitioner.  The rows of the dataset X are 1..n_samples.  rng holds    *)
(* what numpy's RandomState(seed).permutation(n) has returned so far,      *)
(* keyed by <<seed, n>>: a seeded generator returns one fixed permutation  *)
(* per key, which is not known before it is drawn.  splits is the log of   *)
(* the calls made, one record per call.                                    *)
(***************************************************************************)
VARIABLES config, n_samples, rng, splits

splitVars == <<config, n_samples, rng, splits>>

MaxSamples == 73

MaxEnum == 3

MaxCalls == 2

\* Config.TEST_SIZE, Config.VALIDATION_SIZE as the class defines them
ConfigDefaults == [TEST_SIZE |-> FLit(1, 10), VALIDATION_SIZE |-> FLit(2, 10)]

\* random_state=None
NoSeed == -1

Image(f) == {f[i] : i \in DOMAIN f}

\* The permutations of 1..n the generator may return.  Up to MaxEnum rows
\* every permutation; beyond, the identity and the reversal stand for it.
RngOutputs(n) ==
    IF n <= MaxEnum
    THEN {p \in [1..n -> 1..n] : Image(p) = 1..n}
    ELSE {[i \in 1..n |-> i], [i \in 1..n |-> n + 1 - i]}

\* check_random_state(random_state).permutation(n)
Draw(r, random_state, n) ==
    IF random_state = NoSeed THEN RngOutputs(n)
    ELSE IF <<random_state, n>> \in DOMAIN r THEN {r[<<random_state, n>>]}
    ELSE RngOutputs(n)

Reveal(r, random_state, n, p) ==
    IF random_state = NoSeed THEN r ELSE (<<random_state, n>> :> p) @@ r

\* sklearn's train_test_split(rows, test_size=test_size) with the drawn
\* permutation p: n_test = ceil(test_size * n), n_train = n - n_test, a
\* ValueError when the train set would be empty; the test rows are the
\* first n_test entries of the permutation
train_test_split(rows, test_size, p) ==
    LET n == Len(rows)
        n_test == FCeil(FMul(test_size, FFromInt(n)))
        n_train == n - n_test
    IN  IF n_train <= 0 THEN [ok |-> FALSE]
        ELSE [ok |-> TRUE,
              train |-> [i \in 1..n_train |-> rows[p[n_test + i]]],
              test  |-> [i \in 1..n_test |-> rows[p[i]]]]

\* the seed of the first stage handed to the second stage as None
Stage2SeedLost(random_state) == NoSeed

\* the random_state the second train_test_split call receives
Stage2Seed(random_state) == random_state

\* the second stage carving the validation rows out of all of X
Stage2RowsAll(X, X_temp) == X

\* the rows the second train_test_split call receives
Stage2Rows(X, X_temp) == X_temp

\* the validation fraction used on the remainder as it is
ValRatioUnadjusted(test_size, val_size) == val_size

\* val_ratio = VALIDATION_SIZE / (1 - TEST_SIZE)
ValRatio(test_size, val_size) == FDiv(val_size, FSub(FFromInt(1), test_size))

\* The two-stage split that prepare_train_val_test_splits and
\* train_validation_test_split both perform: the set of possible
\* <<generator state afterwards, logged result>> pairs.
TwoStageSplit(fn, n, test_size, val_size, random_state, r) ==
    LET X == [i \in 1..n |-> i]
        failed == [fn |-> fn, seed |-> random_state, status |-> "ValueError"]
        second(p1) ==
            LET r1 == Reveal(r, random_state, n, p1)
                s1 == train_test_split(X, test_size, p1)
            IN  IF ~s1.ok THEN {<<r1, failed>>}
                ELSE LET rows2 == Stage2Rows(X, s1.train)
                         seed2 == Stage2Seed(random_state)
                     IN  {LET s2 == train_test_split(rows2, ValRatio(test_size, val_size), p2)
                          IN  <<Reveal(r1, seed2, Len(rows2), p2),
                                IF ~s2.ok THEN failed
                                ELSE [fn |-> fn, seed |-> random_state, status |-> "ok",
                                      X_train |-> s2.train, X_val |-> s2.test,
                                      X_test |-> s1.test]>>
                          : p2 \in Draw(r1, seed2, Len(rows2))}
    IN  UNION {second(p1) : p1 \in Draw(r, random_state, n)}

\* ModelTrainer.prepare_train_val_test_splits(X, y)
prepare_train_val_test_splits ==
    /\ Len(splits) < MaxCalls
    /\ \E o \in TwoStageSplit("prepare_train_val_test_splits", n_samples,
                              config.TEST_SIZE, config.VALIDATION_SIZE, 42, rng) :
          /\ rng' = o[1]
          /\ splits' = Append(splits, o[2])
    /\ UNCHANGED <<config, n_samples>>

\* the default arguments of utils.train_validation_test_split
DefaultArgs == [test_size |-> FLit(1, 10), val_size |-> FLit(2, 10), random_state |-> 42]

\* utils.train_validation_test_split(X, y) with its default arguments
train_validation_test_split ==
    /\ Len(splits) < MaxCalls
    /\ \E o \in TwoStageSplit("train_validation_test_split", n_samples,
                              DefaultArgs.test_size, DefaultArgs.val_size,
                              DefaultArgs.random_state, rng) :
          /\ rng' = o[1]
          /\ splits' = Append(splits, o[2])
    /\ UNCHANGED <<config, n_samples>>

(***************************************************************************)
(* Predictor.  predictor is the FRPPredictor: its model and feature_info,  *)
(* both None after construction.  A model is [named_steps, by_name,        *)
(* columns, numeric, n_features_in]: whether it is a sklearn Pipeline,     *)
(* whether it selects its inputs by column name (then it needs a DataFrame *)
(* holding columns, those of numeric holding numbers) or by position (then *)
(* it needs n_features_in numeric columns).  input_data is the single-row  *)
(* dict of the predict_single call, a function from its keys to "num" or   *)
(* "str"; prediction is what the call returned and printed.  result is the   *)
(* dict a predict_from_raw_data call returned, input_data then the raw     *)
(* one-record table it was given.                                          *)
(***************************************************************************)
VARIABLES predictor, input_data, prediction, result

predVars == <<predictor, input_data, prediction, result>>

None == [t |-> "None"]

\* keys of create_sample_input used for the inputs
InputKeys == {"pH_of_condition_enviroment", "condition_time", "surface_treatment", "diameter"}

\* model.predict(X): X is [kind |-> "df", cols, dtypes] or
\* [kind |-> "array", width, numeric]; FALSE stands for the exception
\* sklearn raises on an input it cannot take
ModelAccepts(model, X) ==
    IF model.by_name
    THEN /\ X.kind = "df"
         /\ model.columns \subseteq Image(X.cols)
         /\ \A i \in DOMAIN X.cols : X.cols[i] \in model.numeric => X.dtypes[i] = "num"
    ELSE IF X.kind = "df"
    THEN /\ Len(X.cols) = model.n_features_in
         /\ \A i \in DOMAIN X.cols : X.dtypes[i] = "num"
    ELSE X.width = model.n_features_in /\ X.numeric

\* the keys of a dict as the columns of pd.DataFrame([dict])
RECURSIVE SeqOf(_)
SeqOf(S) == IF S = {} THEN <<>>
            ELSE LET x == CHOOSE x \in S : TRUE IN <<x>> \o SeqOf(S \ {x})

\* standardize_prediction_features with a model loaded: data is None or
\* the DataFrame / array handed to the model, missing the features the
\* method printed as missing
standardize_prediction_features(p, input) ==
    LET cols == DOMAIN input
        fi == p.feature_info
        frame(names) == [kind |-> "df", cols |-> names,
                         dtypes |-> [i \in DOMAIN names |-> input[names[i]]]]
    IN  IF p.model.named_steps
        THEN IF fi # None /\ "feature_names" \in DOMAIN fi
             THEN IF Image(fi.feature_names) \ cols # {}
                  THEN [data |-> None, missing |-> Image(fi.feature_names) \ cols]
                  ELSE [data |-> frame(fi.feature_names), missing |-> {}]
             ELSE [data |-> frame(SeqOf(cols)), missing |-> {}]
        ELSE IF fi = None THEN [data |-> None, missing |-> {}]
             ELSE LET numeric_features == IF "numeric_features" \in DOMAIN fi
                                          THEN fi.numeric_features ELSE <<>>
                      categorical_features == IF "categorical_features" \in DOMAIN fi
                                              THEN fi.categorical_features ELSE <<>>
                      expected_features == numeric_features \o categorical_features
                  IN  IF Image(expected_features) \ cols # {}
                      THEN [data |-> None, missing |-> Image(expected_features) \ cols]
                      ELSE IF Len(numeric_features) > 0
                      THEN [data |-> [kind |-> "array", width |-> Len(numeric_features),
                                      numeric |-> \A i \in DOMAIN numeric_features :
                                                     input[numeric_features[i]] = "num"],
                            missing |-> {}]
                      ELSE [data |-> None, missing |-> {}]

\* _emergency_prediction_fallback: the numeric columns only, z-scored, as
\* an array; "number" or "None" is what it returns
_emergency_prediction_fallback(p, input) ==
    LET numeric_cols == {c \in DOMAIN input : input[c] = "num"}
    IN  IF numeric_cols = {} THEN "None"
        ELSE IF ModelAccepts(p.model, [kind |-> "array",
                                       width |-> Cardinality(numeric_cols),
                                       numeric |-> TRUE])
        THEN "number"
        ELSE "None"

\* predict_single: value is what it returns, path the route it took,
\* missing the feature names it printed
predict_single(p, input) ==
    IF p.model = None THEN [value |-> "None", path |-> "no model", missing |-> {}]
    ELSE LET processed == standardize_prediction_features(p, input)
             fallback == [value |-> _emergency_prediction_fallback(p, input),
                          path |-> "fallback", missing |-> processed.missing]
         IN  IF processed.data = None THEN fallback
             ELSE IF ModelAccepts(p.model, processed.data)
             THEN [value |-> "number", path |-> "primary", missing |-> {}]
             ELSE fallback

\* the saved artifacts load_model may find
Artifacts ==
    LET pH == "pH_of_condition_enviroment"
        time == "condition_time"
        surface == "surface_treatment"
        bare(k) == [named_steps |-> FALSE, by_name |-> FALSE, columns |-> {},
                    numeric |-> {}, n_features_in |-> k]
        pipe == [named_steps |-> TRUE, by_name |-> TRUE, columns |-> {pH, time, surface},
                 numeric |-> {pH, time}, n_features_in |-> 3]
        chain == [named_steps |-> TRUE, by_name |-> FALSE, columns |-> {},
                  numeric |-> {}, n_features_in |-> 2]
    IN  {[model |-> pipe, feature_info |-> [feature_names |-> <<pH, time, surface>>]],
         [model |-> pipe, feature_info |-> None],
         [model |-> chain, feature_info |-> [feature_names |-> <<pH, time>>]],
         [model |-> chain, feature_info |-> [feature_names |-> <<pH, time, surface>>]],
         [model |-> bare(2), feature_info |-> None],
         [model |-> bare(2), feature_info |->
             [numeric_features |-> <<pH, time>>, categorical_features |-> <<surface>>]],
         [model |-> bare(2), feature_info |->
             [numeric_features |-> <<pH, time>>, categorical_features |-> <<>>]],
         [model |-> bare(1), feature_info |->
             [numeric_features |-> <<pH>>, categorical_features |-> <<surface>>]]}

\* FRPPredictor.load_model(model_path) for a readable artifact
load_model ==
    /\ predictor.model = None
    /\ prediction = None
    /\ result = None
    /\ \E a \in Artifacts : predictor' = a
    /\ UNCHANGED <<input_data, prediction, result>>

\* FRPPredictor.predict_single(input_data) with a dict
PredictSingle ==
    /\ prediction = None
    /\ result = None
    /\ \E cols \in SUBSET InputKeys :
       \E input \in [cols -> {"num", "str"}] :
          /\ input_data' = input
          /\ prediction' = predict_single(predictor, input)
    /\ UNCHANGED <<predictor, result>>

(***************************************************************************)
(* Trainer.  trainer is the ModelTrainer: models, the families _init_models *)
(* registered in dict order, and evaluation_results, a dict as the sequence *)
(* of its <<key, value>> items, and enable_hyperparameter_tuning, the flag  *)
(* of its constructor; tuning is config.ENABLE_HYPERPARAMETER_TUNING.       *)
(* results is the dict train_all_models builds and pc the position of its   *)
(* loop.  log holds the <<family, message>> lines printed for failures,     *)
(* raised the exceptions the estimators and the split threw, calls the      *)
(* estimator and metric calls made with the rows each received, returned    *)
(* what train_all_models, compare_models, get_best_model and save_models    *)
(* gave back.  store is the directory of artifacts, from file path to the   *)
(* file: the pickled dict and the number of its chunks written so far;      *)
(* writer is the save_model_safely call under way, loaded the fields of an  *)
(* FRPPredictor after its load_model.  all_results is the list an           *)
(* experiment script collects, one entry per run it records.                *)
(***************************************************************************)
VARIABLES trainer, results, pc, log, raised, calls, returned, store, writer, loaded,
          all_results

storeVars == <<store, writer, loaded>>

trainVars == <<trainer, results, pc, log, raised, calls, returned, storeVars, all_results>>

MaxTrainRows == 5

MaxScore == 1

TUNING_CV_FOLDS == 3

\* self.models after _init_models
_init_models(XGBOOST_AVAILABLE, LIGHTGBM_AVAILABLE) ==
    <<"random_forest">> \o (IF XGBOOST_AVAILABLE THEN <<"xgboost">> ELSE <<>>)
                        \o (IF LIGHTGBM_AVAILABLE THEN <<"lightgbm">> ELSE <<>>)

\* the call of the training at which the estimator raises, if any
Faults == {"none", "search.fit", "pipeline.fit", "pipeline.predict"}

\* hyperparameter_search with the grid search of the configuration: the
\* calls it makes and the message of the exception it is left by ("none"
\* if it returns); GridSearchCV raises on fewer rows than folds
hyperparameter_search(X_train, X_val, tuning, fault) ==
    IF ~tuning THEN [calls |-> {}, error |-> "none"]
    ELSE LET before == {[fn |-> "preprocessor.fit_transform", rows |-> X_train],
                        [fn |-> "preprocessor.transform", rows |-> X_val],
                        [fn |-> "search.fit", rows |-> X_train]}
         IN  IF Cardinality(X_train) < TUNING_CV_FOLDS
             THEN [calls |-> before, error |-> "n_splits greater than the number of samples"]
             ELSE IF fault = "search.fit"
             THEN [calls |-> before, error |-> fault]
             ELSE [calls |-> before \cup {[fn |-> "best_model.score", rows |-> X_val]},
                   error |-> "none"]

\* the rows of the final fit without the validation rows
X_train_alone(X_train, X_val) == X_train

\* np.vstack([X_train, X_val])
X_train_val(X_train, X_val) == X_train \cup X_val

\* the failure record without the message
failed_without_message(model_name, e) ==
    [model_name |-> model_name, error |-> "", status |-> "failed"]

\* the dict the except branch of train_model_with_hyperopt returns
failed(model_name, e) ==
    [model_name |-> model_name, error |-> e, status |-> "failed"]

\* train_model_with_hyperopt after its split succeeded (feature_info set,
\* as it is after prepare_data): the calls made, the message of the
\* exception caught ("none" if none) and the dict returned
train_model_with_hyperopt(model_name, split, tuning, fault, r2) ==
    LET X_train == Image(split.X_train)
        X_val == Image(split.X_val)
        X_test == Image(split.X_test)
        search == hyperparameter_search(X_train, X_val, tuning, fault)
        fit == {[fn |-> "pipeline.fit", rows |-> X_train_val(X_train, X_val)]}
        predict == {[fn |-> "pipeline.predict", rows |-> X_test]}
        metrics == {[fn |-> f, rows |-> X_test] :
                       f \in {"r2_score", "mean_squared_error", "mean_absolute_error"}}
        error == IF search.error # "none" THEN search.error
                 ELSE IF fault \in {"pipeline.fit", "pipeline.predict"} THEN fault
                 ELSE "none"
    IN  [error |-> error,
         calls |-> IF search.error # "none" THEN search.calls
                   ELSE IF fault = "pipeline.fit" THEN search.calls \cup fit
                   ELSE IF fault = "pipeline.predict" THEN search.calls \cup fit \cup predict
                   ELSE search.calls \cup fit \cup predict \cup metrics,
         result |-> IF error # "none" THEN failed(model_name, error)
                    ELSE [model_name |-> model_name, r2_score |-> r2, mse |-> "number",
                          mae |-> "number", rmse |-> "number",
                          test_size |-> Cardinality(X_test),
                          train_size |-> Cardinality(X_train),
                          val_size |-> Cardinality(X_val),
                          hyperparameter_optimized |-> tuning]]

\* one iteration of the loop of train_all_models: the split raises outside
\* the try of train_model_with_hyperopt and is caught here, printed and
\* skipped; otherwise the returned dict, a failure record included, is
\* stored
TrainModel ==
    /\ pc \in DOMAIN trainer.models
    /\ \E o \in TwoStageSplit("prepare_train_val_test_splits", n_samples,
                              config.TEST_SIZE, config.VALIDATION_SIZE, 42, rng),
          fault \in Faults, r2 \in 0..MaxScore :
          LET model_name == trainer.models[pc]
              t == train_model_with_hyperopt(model_name, o[2], trainer.tuning, fault, r2)
          IN  /\ rng' = o[1]
              /\ splits' = Append(splits, o[2])
              /\ IF o[2].status # "ok"
                 THEN /\ results' = results
                      /\ calls' = calls
                      /\ raised' = raised \cup {[model_name |-> model_name, inside |-> FALSE,
                                                 message |-> o[2].status]}
                      /\ log' = log \cup {<<model_name, o[2].status>>}
                 ELSE /\ results' = Append(results, <<model_name, t.result>>)
                      /\ calls' = calls \cup {[model_name |-> model_name, split |-> Len(splits) + 1,
                                               fn |-> c.fn, rows |-> c.rows] : c \in t.calls}
                      /\ raised' = IF t.error = "none" THEN raised
                                   ELSE raised \cup {[model_name |-> model_name, inside |-> TRUE,
                                                      message |-> t.error]}
                      /\ log' = IF t.error = "none" THEN log
                                ELSE log \cup {<<model_name, t.error>>}
    /\ pc' = pc + 1
    /\ UNCHANGED <<config, n_samples, trainer, returned, storeVars>>

\* train_all_models after its loop.  _create_ensemble_model takes as base
\* learners the stored dicts that hold a 'model'; with none VotingRegressor
\* raises in fit and the ensemble is given up with a printed line.  With
\* some, the ensemble is fitted on the rows left by one split with the seed
\* of the first stage and stored under 'ensemble'.  The results become
\* evaluation_results and are returned.
ReturnResults ==
    /\ pc = Len(trainer.models) + 1
    /\ LET estimators == {results[i][1] : i \in {j \in DOMAIN results :
                                                   "model" \in DOMAIN results[j][2]}}
       IN  \E r2 \in 0..MaxScore :
              LET final == IF Len(results) > 1 /\ estimators # {}
                           THEN Append(results,
                                       <<"ensemble", [model |-> estimators,
                                                      test_metrics |-> [r2 |-> r2],
                                                      cv_scores |-> "array",
                                                      cv_mean |-> "number",
                                                      cv_std |-> "number",
                                                      feature_info |-> trainer.models]>>)
                           ELSE results
              IN  /\ results' = final
                  /\ log' = IF Len(results) > 1 /\ estimators = {}
                            THEN log \cup {<<"ensemble", "Invalid 'estimators' attribute">>}
                            ELSE log
                  /\ trainer' = [trainer EXCEPT !.evaluation_results = final]
                  /\ returned' = [returned EXCEPT
                                    !.train_all_models = [status |-> "ok", value |-> final]]
    /\ pc' = 0
    /\ UNCHANGED <<splitVars, raised, calls, storeVars>>

\* compare_models: the Model column of the frame sorted by R2, or the
\* KeyError of result['test_metrics']
compare_models(evaluation_results) ==
    IF evaluation_results = <<>> THEN [status |-> "ok", value |-> <<>>]
    ELSE IF \E i \in DOMAIN evaluation_results :
               "test_metrics" \notin DOMAIN evaluation_results[i][2]
    THEN [status |-> "KeyError", value |-> "test_metrics"]
    ELSE LET n == Len(evaluation_results)
             r2(i) == evaluation_results[i][2].test_metrics.r2
             order == CHOOSE p \in {q \in [1..n -> 1..n] : Image(q) = 1..n} :
                         \A i, j \in 1..n : i < j => r2(p[i]) >= r2(p[j])
         IN  [status |-> "ok", value |-> [i \in 1..n |-> evaluation_results[order[i]][1]]]

\* get_best_model: the first item whose test R2 is above all before it and
\* not below any after it, or the KeyError of result['test_metrics']
get_best_model(evaluation_results) ==
    IF evaluation_results = <<>> THEN [status |-> "ok", value |-> <<None, None>>]
    ELSE IF \E i \in DOMAIN evaluation_results :
               "test_metrics" \notin DOMAIN evaluation_results[i][2]
    THEN [status |-> "KeyError", value |-> "test_metrics"]
    ELSE LET r2(i) == evaluation_results[i][2].test_metrics.r2
             best == CHOOSE i \in DOMAIN evaluation_results :
                        /\ \A j \in DOMAIN evaluation_results : r2(j) <= r2(i)
                        /\ \A j \in 1..(i - 1) : r2(j) < r2(i)
         IN  [status |-> "ok", value |-> evaluation_results[best]]

CompareModels ==
    /\ pc = 0
    /\ returned.compare_models = None
    /\ returned' = [returned EXCEPT !.compare_models = compare_models(trainer.evaluation_results)]
    /\ UNCHANGED <<splitVars, trainer, results, pc, log, raised, calls, storeVars>>

GetBestModel ==
    /\ pc = 0
    /\ returned.get_best_model = None
    /\ returned' = [returned EXCEPT !.get_best_model = get_best_model(trainer.evaluation_results)]
    /\ UNCHANGED <<splitVars, trainer, results, pc, log, raised, calls, storeVars>>

MaxChunks == 2

\* no file at the path
NoFile == [t |-> "NoFile"]

\* the file pickle.dump(save_data, f) leaves once it has returned
Pickled(model, additional_info) ==
    [data |-> [model |-> model, additional_info |-> additional_info],
     written |-> MaxChunks]

\* save_model_safely up to open(filepath, 'wb'): the file is created or
\* truncated in place
OpenFile(model, filepath) ==
    /\ writer = None
    /\ writer' = [filepath |-> filepath, status |-> "writing"]
    /\ store' = [p \in DOMAIN store \cup {filepath} |->
                    IF p = filepath THEN [Pickled(model, None) EXCEPT !.written = 0]
                    ELSE store[p]]
    /\ UNCHANGED loaded

\* pickle.dump writing the next chunk of the file
Dump ==
    /\ writer # None /\ writer.status = "writing"
    /\ store[writer.filepath].written < MaxChunks
    /\ store' = [store EXCEPT ![writer.filepath].written = @ + 1]
    /\ UNCHANGED <<writer, loaded>>

\* the with block left after the last chunk: return True
ReturnTrue ==
    /\ writer # None /\ writer.status = "writing"
    /\ store[writer.filepath].written = MaxChunks
    /\ writer' = [writer EXCEPT !.status = "True"]
    /\ UNCHANGED <<store, loaded>>

\* pickle.dump raising part-way (or the process stopped): the except
\* branch returns False and the file stays as it is
ReturnFalse ==
    /\ writer # None /\ writer.status = "writing"
    /\ store[writer.filepath].written < MaxChunks
    /\ writer' = [writer EXCEPT !.status = "False"]
    /\ UNCHANGED <<store, loaded>>

\* load_model_safely(filepath): <<model, additional_info>>, <<None, None>>
\* when the file is missing or pickle.load fails on a truncated file
load_model_safely(files, filepath) ==
    IF filepath \notin DOMAIN files \/ files[filepath] = NoFile THEN <<None, None>>
    ELSE IF files[filepath].written < MaxChunks THEN <<None, None>>
    ELSE <<files[filepath].data.model, files[filepath].data.additional_info>>

\* dict.get(key) of a loaded bundle
Get(dict, key) == IF key \in DOMAIN dict THEN dict[key] ELSE None

\* FRPPredictor().load_model(model_path): what was loaded is None, a dict
\* or an estimator (which has the attribute named_steps or lacks it)
LoadModel(paths) ==
    /\ loaded = None
    /\ \E model_path \in paths :
          LET got == load_model_safely(store, model_path)
              is_dict == "t" \notin DOMAIN got[1] /\ "named_steps" \notin DOMAIN got[1]
              fields == IF got[1] = None THEN [model |-> None, feature_info |-> None,
                                               model_metadata |-> None]
                        ELSE IF is_dict
                        THEN [model |-> Get(got[1], "model"),
                              feature_info |-> Get(got[1], "feature_info"),
                              model_metadata |-> Get(got[1], "metrics")]
                        ELSE [model |-> got[1], feature_info |-> got[2],
                              model_metadata |-> None]
          IN  loaded' = [model_path |-> model_path, ok |-> fields.model # None,
                         model |-> fields.model, feature_info |-> fields.feature_info,
                         model_metadata |-> fields.model_metadata]
    /\ UNCHANGED <<store, writer>>

\* save_models: every stored dict is written as <model_name>_model.pkl;
\* one that lacks a key of save_data raises KeyError, which is printed
save_models(evaluation_results) ==
    LET savable == {i \in DOMAIN evaluation_results :
                       {"model", "feature_info", "test_metrics", "cv_scores"}
                          \subseteq DOMAIN evaluation_results[i][2]}
        name(i) == evaluation_results[i][1]
    IN  [files |-> [f \in {name(i) : i \in savable} |->
                      LET r == evaluation_results[CHOOSE i \in savable : name(i) = f][2]
                      IN  Pickled([model |-> r.model, feature_info |-> r.feature_info,
                                   metrics |-> r.test_metrics, cv_scores |-> r.cv_scores],
                                  None)],
         saved_count |-> Cardinality(savable),
         failed |-> {<<name(i), "KeyError">> : i \in DOMAIN evaluation_results \ savable}]

SaveModels ==
    /\ pc = 0
    /\ returned.train_all_models # None
    /\ returned.save_models = None
    /\ LET saved == save_models(trainer.evaluation_results)
       IN  /\ store' = saved.files @@ store
           /\ log' = log \cup saved.failed
           /\ returned' = [returned EXCEPT !.save_models =
                                         [status |-> "ok", value |-> saved.saved_count]]
    /\ UNCHANGED <<splitVars, trainer, results, pc, raised, calls, writer, loaded>>

(***************************************************************************)
(* Raw tables.  The tables preprocess_data is run on: single records that  *)
(* vary the fields one rule reads, and two-record tables that mix the      *)
(* cell types a column can hold.                                           *)
(***************************************************************************)
Absent == [t |-> "absent"]

\* the ways to give each column of cols one of its options
RECURSIVE Choices(_, _)
Choices(opts, cols) ==
    IF cols = {} THEN {<<>>}
    ELSE LET c == CHOOSE c \in cols : TRUE
         IN  {(c :> v) @@ g : v \in opts[c], g \in Choices(opts, cols \ {c})}

\* the one-record tables that give each column of opts one of its options
\* (Absent: the table has no such column), next to a Target_parameter column
Records(opts) ==
    {LET present == {c \in DOMAIN f : f[c] # Absent} \cup {"Target_parameter"}
     IN  [columns |-> present,
          rows |-> <<[c \in present |-> IF c \in DOMAIN f THEN f[c] ELSE Str(<<"T", "e", "n", "s", "i", "l", "e">>)]>>]
     : f \in Choices(opts, DOMAIN opts)}

ConcreteRecords ==
    Records([concrete |-> {Absent, NaN, Str(<<"y", "e", "s">>), Num(1)},
             crack |-> {Absent, NaN, Str(<<"S", "M", "D">>), Str(<<"f", "i", "n", "e">>), Num(2), NpInt(2)},
             cover |-> {Absent, NaN, Num(25), NpInt(25)}])

LoadRecords ==
    Records([type_of_load |-> {Absent, NaN, Str(<<"p", "r", "e", "l", "o", "a", "d", "i", "n", "g">>), Str(<<"s", "u", "s", "t", "a", "i", "n", "e", "d">>)},
             stress_or_strain |-> {Absent, Str(<<"s", "t", "r", "e", "s", "s">>), Str(<<"s", "t", "r", "a", "i", "n">>)},
             value_load |-> {Absent, NaN, Num(300), NegFlt(FFromInt(300)), NpInt(300),
                             Str(<<"h", "i", "g", "h">>)},
             ultimate_tensile_strength |-> {Absent, NaN, Num(1000)},
             tensile_modulus |-> {Absent, Num(50)}])

FiberRecords ==
    Records([Fiber_content_weight |-> {Absent, NaN, Num(60)},
             Fiber_content_volume |-> {NaN, Num(0), Num(50), Num(100), NpInt(100), Str(<<"6", "0", ",", "7", "0">>)},
             Fiber_type |-> {Absent, Str(<<"G", "l", "a", "s", "s">>), Str(<<"C", "a", "r", "b", "o", "n">>), Str(<<"B", "a", "s", "a", "l", "t">>), Str(<<"A", "r", "a", "m", "i", "d">>), Str(<<"S", "M", "D">>)},
             Matrix_type |-> {Absent, Str(<<"V", "i", "n", "y", "l", " ", "e", "s", "t", "e", "r">>), Str(<<"E", "p", "o", "x", "y">>), Str(<<"P", "o", "l", "y", "e", "s", "t", "e", "r">>),
                              Str(<<"N", "o", "t", "r", "e", "p", "o", "r", "t", "e", "d">>)}])

RangeRecords ==
    Records([diameter |-> {NaN, Num(20), Str(<<"2", "0", ",", "3", "0">>), Str(<<"1", "0", ",", "1", "5">>), Str(<<"2", ".", "5", ",", "3">>), Str(<<"1", ":", "2", ",", "3">>),
                           Str(<<"5">>), Str(<<"a", ",", "b">>), Str(<<"\\", "d", "\\", ".", "\\", "d", ",">>)},
             crack |-> {Absent, Str(<<"1", ",", "2">>)},
             Title |-> {Absent, Str(<<"2", "0", ",", "3", "0">>), Str(<<"f", "i", "n", "e">>)}])

\* records that vary the target and the fields that can hold text
AssemblerRecords ==
    Records([retention1 |-> {Absent, NaN, Num(85), Str(<<"8", "5">>), Str(<<"S", "M", "D">>)},
             surface_treatment |-> {Absent, NaN, Str(<<"s", "a", "n", "d", " ", "c", "o", "a", "t", "e", "d">>),
                                    Str(<<"S", "m", "o", "o", "t", "h">>), Str(<<"r", "i", "b", "b", "e", "d">>)},
             diameter |-> {NaN, Num(12), Str(<<"1", "2", "m", "m">>)},
             Title |-> {Absent, Str(<<"A">>)}])

\* two records over the same columns
MixedTables ==
    LET cells == [crack |-> {Str(<<"S", "M", "D">>), Str(<<"f", "i", "n", "e">>), PyInt(2), Num(2), NaN},
                  Fiber_type |-> {Str(<<"G", "l", "a", "s", "s">>), Str(<<"B", "a", "s", "a", "l", "t">>)},
                  type_of_load |-> {Str(<<"p", "r", "e", "l", "o", "a", "d", "i", "n", "g">>), Str(<<"s", "u", "s", "t", "a", "i", "n", "e", "d">>)}]
        rows == {r \in [DOMAIN cells -> UNION {cells[c] : c \in DOMAIN cells}] :
                    \A c \in DOMAIN cells : r[c] \in cells[c]}
    IN  {t \in {[columns |-> DOMAIN cells, rows |-> <<r1, r2>>] : r1, r2 \in rows} :
            WellTyped(t)}

\* frames of two records whose volume column holds a Python int next to a
\* string, the int being one that makes the conversion's denominator 0.0
\* or one that does not
FaultTables ==
    LET volumes == {<<PyInt(-150), Str(<<"6", "0", ",", "7", "0">>)>>,
                    <<PyInt(50), Str(<<"6", "0", ",", "7", "0">>)>>,
                    <<Str(<<"6", "0", ",", "7", "0">>), PyInt(-150)>>}
        surfaces == {Str(<<"s", "a", "n", "d", " ", "c", "o", "a", "t", "e", "d">>),
                     Str(<<"S", "m", "o", "o", "t", "h">>)}
        retentions == {NaN, Num(85)}
    IN  {[columns |-> {"Fiber_content_volume", "surface_treatment", "retention1"},
          rows |-> [i \in 1..2 |->
                      [Fiber_content_volume |-> v[i], surface_treatment |-> st[i],
                       retention1 |-> r[i]]]] :
            v \in volumes, st \in surfaces \X surfaces, r \in retentions \X retentions}

\* records of the pH rule: numeric pH fields of either numeric dtype
PhRecords ==
    Records([Condition_environment |-> {Absent, Str(<<"c", "o", "n", "c", "r", "e", "t", "e">>)},
             pH_of_concrete |-> {Absent, Num(12), NpInt(12)},
             solution_condition |-> {Absent, NaN, Num(9), NpInt(9)},
             pH_1 |-> {Absent, Num(8)},
             pH |-> {Absent, Num(4)},
             pHafter |-> {Absent, Num(11)}])

\* records of the water-type inference and of the ingredient scan
WaterRecords ==
    Records([solution_condition |-> {Absent, NaN, Num(9),
                                     Str(<<"S", "e", "a", " ", "w", "a", "t", "e", "r">>),
                                     Str(<<"t", "a", "p", " ", "w", "a", "t", "e", "r">>)},
             ingredient_1 |-> {Absent, NaN, Str(<<"N", "a", "C", "l">>),
                               Str(<<"s", "e", "a", " ", "w", "a", "t", "e", "r">>),
                               Str(<<"t", "a", "p", " ", "w", "a", "t", "e", "r">>)},
             pH_1 |-> {Absent, Num(8)}])

RawTables == ConcreteRecords \cup LoadRecords \cup FiberRecords \cup RangeRecords
             \cup AssemblerRecords \cup MixedTables \cup FaultTables
             \cup PhRecords \cup WaterRecords

\* the tables the normalizer alone is applied to: every marker, values
\* that only resemble one, and values that pass through
NormalizerTables ==
    LET cells == {NaN, Num(5), Str(<<"S", "M", "D">>), Str(<<"s", "m", "d">>), Str(<<"N", "o", "t", "r", "e", "p", "o", "r", "t", "e", "d">>), Str(<<"n", "o", "t", " ", "r", "e", "p", "o", "r", "t", "e", "d">>),
                  Str(<<"N", "o", "t", " ", "r", "e", "p", "o", "r", "t", "e", "d">>), Str(<<"N", "O", "T", " ", "R", "E", "P", "O", "R", "T", "E", "D">>), Str(<<"U", "n", "k", "n", "o", "w", "n">>), Str(<<"G", "l", "a", "s", "s">>), Str(<<"S", "M", "D", " ">>)}
    IN  {[columns |-> {"Fiber_type", "diameter"},
          rows |-> <<[Fiber_type |-> a, diameter |-> b]>>] : a, b \in cells}
        \cup {[columns |-> {"Fiber_type"},
               rows |-> <<[Fiber_type |-> a], [Fiber_type |-> b]>>] : a, b \in cells}

(***************************************************************************)
(* The preprocessing chain of preprocess_data                              *)
(***************************************************************************)
vars == <<preVars, splitVars, predVars, trainVars>>

\* the trainer before any split and the predictor as constructed
SplitIdle == config = ConfigDefaults /\ n_samples = 0 /\ rng = <<>> /\ splits = <<>>

PredIdle == /\ predictor = [model |-> None, feature_info |-> None]
            /\ input_data = <<>>
            /\ prediction = None
            /\ result = None

\* no trainer constructed
TrainIdle == /\ trainer = None /\ results = <<>> /\ pc = 0 /\ log = {}
             /\ raised = {} /\ calls = {} /\ returned = None
             /\ store = <<>> /\ writer = None /\ loaded = None
             /\ all_results = <<>>

PreIdle == /\ data_ori = None /\ df = None /\ prev_df = None
           /\ stage = "none" /\ passes = 0

\* step 1 of preprocess_data
ChangeSmdToNan ==
    /\ stage = "raw"
    /\ prev_df' = df
    /\ df' = change_smd_to_nan(df)
    /\ stage' = "clean"
    /\ passes' = passes + 1
    /\ UNCHANGED <<data_ori, splitVars, predVars, trainVars>>

\* step 2 of preprocess_data
ParseRangeToMean ==
    /\ stage = "clean"
    /\ prev_df' = df
    /\ df' = parse_range_to_mean(df)
    /\ stage' = "parsed"
    /\ UNCHANGED <<data_ori, passes, splitVars, predVars, trainVars>>

\* step 3 of preprocess_data
CreateSelectedFeatures ==
    /\ stage = "parsed"
    /\ prev_df' = df
    /\ df' = create_selected_features(df)
    /\ stage' = "features"
    /\ UNCHANGED <<data_ori, passes, splitVars, predVars, trainVars>>

\* step 4 of preprocess_data, and create_model_dataset called on a loaded
\* frame as run_parameter_experiments does
CreateModelDataset ==
    /\ stage \in {"features", "loaded"}
    /\ prev_df' = df
    /\ df' = create_model_dataset(df)
    /\ stage' = "model"
    /\ UNCHANGED <<data_ori, passes, splitVars, predVars, trainVars>>

Init ==
    /\ data_ori \in RawTables
    /\ df = data_ori
    /\ prev_df = data_ori
    /\ stage = "raw"
    /\ passes = 0
    /\ SplitIdle
    /\ PredIdle
    /\ TrainIdle

Next == ChangeSmdToNan \/ ParseRangeToMean \/ CreateSelectedFeatures \/ CreateModelDataset

Spec == Init /\ [][Next]_vars

(***************************************************************************)
(* The normalizer applied repeatedly to a table                            *)
(***************************************************************************)
MaxPasses == 2

\* change_smd_to_nan(df) on the table an earlier call returned
Normalize ==
    /\ stage = "normalizer"
    /\ passes < MaxPasses
    /\ prev_df' = df
    /\ df' = change_smd_to_nan(df)
    /\ passes' = passes + 1
    /\ UNCHANGED <<data_ori, stage, splitVars, predVars, trainVars>>

InitNorm ==
    /\ data_ori \in NormalizerTables
    /\ df = data_ori
    /\ prev_df = data_ori
    /\ stage = "normalizer"
    /\ passes = 0
    /\ SplitIdle
    /\ PredIdle
    /\ TrainIdle

NextNorm == Normalize

SpecNorm == InitNorm /\ [][NextNorm]_vars

(***************************************************************************)
(* The partitioner run on a dataset of n_samples rows                      *)
(***************************************************************************)
InitSplit ==
    /\ PreIdle
    /\ PredIdle
    /\ TrainIdle
    /\ config = ConfigDefaults
    /\ n_samples \in 1..MaxSamples
    /\ rng = <<>>
    /\ splits = <<>>

NextSplit ==
    \/ prepare_train_val_test_splits /\ UNCHANGED <<preVars, predVars, trainVars>>
    \/ train_validation_test_split /\ UNCHANGED <<preVars, predVars, trainVars>>

SpecSplit == InitSplit /\ [][NextSplit]_vars

\* FRPPredictionPipeline.predict_from_raw_data(raw_data) for one raw
\* record, from the frame preprocess_data returned.  predict_single is handed processed_df.iloc[0], a Series: it has
\* no columns, no reshape and no select_dtypes attribute, so feature
\* standardization, the model call on what a Pipeline without feature_info
\* gets back, and the emergency fallback each end in the AttributeError
\* that their except clause turns into None
predict_from_raw_data(p, processed_df) ==
    LET prediction_of_series == "None"
    IN  IF Len(processed_df.rows) = 0
        THEN [success |-> FALSE, error |-> "Data preprocessing failed", prediction |-> "None"]
        ELSE IF prediction_of_series = "None"
        THEN [success |-> FALSE, error |-> "Prediction failed", prediction |-> "None"]
        ELSE [success |-> TRUE, error |-> "", prediction |-> prediction_of_series]

\* FRPPredictionPipeline.predict_from_raw_data(raw_data) with a dict, after
\* its preprocess_data call has gone through its four steps on the
\* one-record frame data_ori
PredictFromRawData ==
    /\ stage = "model"
    /\ prediction = None
    /\ result = None
    /\ input_data' = data_ori
    /\ result' = predict_from_raw_data(predictor, df)
    /\ UNCHANGED <<predictor, prediction>>

(***************************************************************************)
(* The dataset assembler called on a loaded frame                          *)
(***************************************************************************)
MaxRows == 101

\* loaded frames of up to 3 rows and of MaxRows - 4 .. MaxRows rows: the
\* first rows entirely empty, the others with the target and a feature,
\* the target alone or a feature alone; with a Title column (empty in the
\* empty rows) or without
DirectTables ==
    LET columns(title) == {"Tensile_strength_retention", "diameter"}
                          \cup (IF title THEN {"Title"} ELSE {})
        row(title, kind, is_empty) ==
            [c \in columns(title) |->
                IF is_empty THEN NaN
                ELSE IF c = "Title" THEN Str(<<"A">>)
                ELSE IF c = "diameter" /\ kind = "target" THEN NaN
                ELSE IF c = "Tensile_strength_retention" /\ kind = "feature" THEN NaN
                ELSE Num(12)]
    IN  {[columns |-> columns(title),
          rows |-> [i \in 1..n |-> row(title, kind, i <= empty)]] :
            n \in (1..3) \cup ((MaxRows - 4)..MaxRows), empty \in 0..2,
            kind \in {"full", "target", "feature"}, title \in BOOLEAN}

InitAssemble ==
    /\ SplitIdle
    /\ PredIdle
    /\ TrainIdle
    /\ data_ori = None
    /\ prev_df = None
    /\ df \in {t \in DirectTables : Len(t.rows) > 0}
    /\ stage = "loaded"
    /\ passes = 0

NextAssemble == CreateModelDataset

SpecAssemble == InitAssemble /\ [][NextAssemble]_vars

(***************************************************************************)
(* The predictor: load an artifact, then predict one input                 *)
(***************************************************************************)
\* a run is a predictor session (load_model, predict_single) or one
\* predict_from_raw_data call on a raw record
InitPredict ==
    /\ SplitIdle
    /\ PredIdle
    /\ TrainIdle
    /\ \/ PreIdle
       \/ /\ data_ori \in AssemblerRecords
          /\ df = data_ori
          /\ prev_df = data_ori
          /\ stage = "raw"
          /\ passes = 0

NextPredict ==
    \/ stage = "none" /\ load_model /\ UNCHANGED <<preVars, splitVars, trainVars>>
    \/ stage = "none" /\ PredictSingle /\ UNCHANGED <<preVars, splitVars, trainVars>>
    \/ ChangeSmdToNan
    \/ ParseRangeToMean
    \/ CreateSelectedFeatures
    \/ CreateModelDataset
    \/ PredictFromRawData /\ UNCHANGED <<preVars, splitVars, trainVars>>

SpecPredict == InitPredict /\ [][NextPredict]_vars

(***************************************************************************)
(* The trainer: train_all_models, then compare_models and get_best_model   *)
(***************************************************************************)
InitTrain ==
    /\ PreIdle
    /\ PredIdle
    /\ config = ConfigDefaults
    /\ n_samples \in {1, 3, MaxTrainRows}
    /\ rng = <<>>
    /\ splits = <<>>
    /\ \E XGBOOST_AVAILABLE, LIGHTGBM_AVAILABLE, tuning, enable \in BOOLEAN :
          trainer = [models |-> _init_models(XGBOOST_AVAILABLE, LIGHTGBM_AVAILABLE),
                     evaluation_results |-> <<>>, tuning |-> tuning,
                     enable_hyperparameter_tuning |-> enable]
    /\ results = <<>>
    /\ pc = 1
    /\ log = {}
    /\ raised = {}
    /\ calls = {}
    /\ returned = [train_all_models |-> None, compare_models |-> None,
                   get_best_model |-> None, save_models |-> None]
    /\ store = <<>>
    /\ writer = None
    /\ loaded = None
    /\ all_results = <<>>

NextTrain ==
    \/ TrainModel /\ UNCHANGED <<preVars, predVars, all_results>>
    \/ ReturnResults /\ UNCHANGED <<preVars, predVars, all_results>>
    \/ CompareModels /\ UNCHANGED <<preVars, predVars, all_results>>
    \/ GetBestModel /\ UNCHANGED <<preVars, predVars, all_results>>
    \/ SaveModels /\ UNCHANGED <<preVars, predVars, all_results>>
    \/ /\ returned.save_models # None
       /\ LoadModel({trainer.models[i] : i \in DOMAIN trainer.models})
       /\ UNCHANGED <<preVars, splitVars, predVars, trainer, results, pc, log, raised,
                      calls, returned, all_results>>

SpecTrain == InitTrain /\ [][NextTrain]_vars

(***************************************************************************)
(* The experiment scripts.  config holds, next to the sizes, CV_FOLDS,     *)
(* TUNING_N_ITER and HYPERPARAMETER_SEARCH_METHOD as read through the      *)
(* instance, MODEL_PARAMS the attribute of the instance (None while it has *)
(* none and the name resolves to the dict of the class) and                *)
(* Config_MODEL_PARAMS the dict of the class, which the classmethod        *)
(* get_model_params reads.  A dict of model parameters is written as the   *)
(* n_estimators of each family.                                            *)
(***************************************************************************)
MaxRuns == 2

ExperimentConfig ==
    [TEST_SIZE |-> ConfigDefaults.TEST_SIZE,
     VALIDATION_SIZE |-> ConfigDefaults.VALIDATION_SIZE,
     CV_FOLDS |-> 5,
     ENABLE_HYPERPARAMETER_TUNING |-> TRUE,
     TUNING_N_ITER |-> 50,
     HYPERPARAMETER_SEARCH_METHOD |-> "grid",
     MODEL_PARAMS |-> None,
     Config_MODEL_PARAMS |-> [xgboost |-> 200, lightgbm |-> 200, random_forest |-> 200]]

\* two of the sets of define_parameter_sets
parameter_sets ==
    {[name |-> "Conservative",
      params |-> [xgboost |-> 100, lightgbm |-> 100, random_forest |-> 100],
      training_params |-> [test_size |-> FLit(2, 10), cv_folds |-> 3,
                           enable_tuning |-> FALSE]],
     [name |-> "High_Performance",
      params |-> [xgboost |-> 500, lightgbm |-> 500, random_forest |-> 500],
      training_params |-> [test_size |-> FLit(2, 10), cv_folds |-> 5,
                           enable_tuning |-> FALSE]]}

\* the strategies define_hyperopt_strategies always returns
strategies ==
    {[name |-> "RandomForest_GridSearch", search_method |-> "grid",
      model_focus |-> "random_forest"],
     [name |-> "RandomForest_RandomSearch", search_method |-> "random",
      model_focus |-> "random_forest"]}

\* what a ModelTrainer created now, and its training, read from the config
TrainerReads(c) ==
    [get_model_params |-> c.Config_MODEL_PARAMS,
     TEST_SIZE |-> c.TEST_SIZE,
     CV_FOLDS |-> c.CV_FOLDS,
     HYPERPARAMETER_SEARCH_METHOD |-> c.HYPERPARAMETER_SEARCH_METHOD,
     TUNING_N_ITER |-> c.TUNING_N_ITER]

\* what training one family comes to: its dict is stored ("ok"), a failure
\* record is stored ("failed"), or the split raises and nothing is stored
Outcomes == {"ok", "failed", "raised"}

\* the dicts train_all_models returns for the outcomes of its families
training_results(models, outcome, tuning) ==
    LET stored == SelectSeq(models, LAMBDA m : outcome[m] # "raised")
    IN  [i \in DOMAIN stored |->
            <<stored[i],
              IF outcome[stored[i]] = "failed" THEN failed(stored[i], "pipeline.fit")
              ELSE [model_name |-> stored[i], r2_score |-> MaxScore, mse |-> "number",
                    mae |-> "number", rmse |-> "number", test_size |-> 1,
                    train_size |-> 1, val_size |-> 1,
                    hyperparameter_optimized |-> tuning]>>]

\* run_single_experiment(param_set, data_df).  prepare_data raises when the
\* frame lacks the target column; compare_models raises as compare_models
\* above tells.  Either exception leaves through the except branch.
RunSingleExperiment ==
    /\ Len(all_results) < MaxRuns
    /\ \E param_set \in parameter_sets, XGBOOST_AVAILABLE, LIGHTGBM_AVAILABLE \in BOOLEAN,
          prepare_data_raises \in BOOLEAN :
       LET own == config.MODEL_PARAMS # None
           original_model_params == IF own THEN config.MODEL_PARAMS
                                    ELSE config.Config_MODEL_PARAMS
           original_test_size == config.TEST_SIZE
           original_cv_folds == config.CV_FOLDS
           updated == [m \in DOMAIN original_model_params \cup DOMAIN param_set.params |->
                          IF m \in DOMAIN param_set.params THEN param_set.params[m]
                          ELSE original_model_params[m]]
           applied == [config EXCEPT !.MODEL_PARAMS = IF own THEN updated ELSE None,
                                     !.Config_MODEL_PARAMS = IF own THEN @ ELSE updated,
                                     !.TEST_SIZE = param_set.training_params.test_size,
                                     !.CV_FOLDS = param_set.training_params.cv_folds]
           models == _init_models(XGBOOST_AVAILABLE, LIGHTGBM_AVAILABLE)
       IN  \E outcome \in [Image(models) -> Outcomes] :
              LET model_results == training_results(models, outcome,
                                                    config.ENABLE_HYPERPARAMETER_TUNING)
                  error == IF prepare_data_raises THEN "ValueError"
                           ELSE IF compare_models(model_results).status # "ok"
                           THEN compare_models(model_results).status
                           ELSE "none"
              IN  IF error = "none"
                  THEN /\ config' = [applied EXCEPT !.MODEL_PARAMS = original_model_params,
                                                    !.TEST_SIZE = original_test_size,
                                                    !.CV_FOLDS = original_cv_folds]
                       /\ all_results' = Append(all_results,
                                                [experiment_name |-> param_set.name,
                                                 parameters |-> param_set.params,
                                                 trained_with |-> TrainerReads(applied)])
                  ELSE /\ config' = applied
                       /\ all_results' = Append(all_results,
                                                [experiment_name |-> param_set.name,
                                                 error |-> error])
    /\ UNCHANGED <<preVars, n_samples, rng, splits, predVars, trainer, results, pc, log,
                   raised, calls, returned, storeVars>>

\* one iteration of the loop of run_hyperparameter_optimization.  An
\* exception of prepare_data or of the split leaves through the except
\* branch, a family the trainer lacks through continue; a failure record
\* is printed and not collected.
StrategyIteration ==
    /\ Len(all_results) < MaxRuns
    /\ \E strategy \in strategies, outcome \in Outcomes,
          XGBOOST_AVAILABLE, LIGHTGBM_AVAILABLE \in BOOLEAN :
       LET original_method == config.HYPERPARAMETER_SEARCH_METHOD
           original_iter == config.TUNING_N_ITER
           applied == [config EXCEPT !.HYPERPARAMETER_SEARCH_METHOD = strategy.search_method,
                                     !.TUNING_N_ITER = IF strategy.search_method = "grid"
                                                       THEN 20 ELSE 50]
           restored == [applied EXCEPT !.HYPERPARAMETER_SEARCH_METHOD = original_method,
                                       !.TUNING_N_ITER = original_iter]
           target_model == strategy.model_focus
       IN  IF target_model \notin Image(_init_models(XGBOOST_AVAILABLE, LIGHTGBM_AVAILABLE))
              \/ outcome = "raised"
           THEN config' = applied /\ all_results' = all_results
           ELSE /\ config' = restored
                /\ all_results' = IF outcome = "failed" THEN all_results
                                  ELSE Append(all_results,
                                              [strategy_name |-> strategy.name,
                                               search_method |-> strategy.search_method,
                                               trained_with |-> TrainerReads(applied)])
    /\ UNCHANGED <<preVars, n_samples, rng, splits, predVars, trainer, results, pc, log,
                   raised, calls, returned, storeVars>>

InitExperiment ==
    /\ PreIdle
    /\ PredIdle
    /\ TrainIdle
    /\ config = ExperimentConfig
    /\ n_samples = 0 /\ rng = <<>> /\ splits = <<>>

NextExperiment == RunSingleExperiment \/ StrategyIteration

SpecExperiment == InitExperiment /\ [][NextExperiment]_vars

(***************************************************************************)
(* The artifact store: save_model_safely writing a bundle to a path that  *)
(* holds no file or an earlier artifact, and a predictor loading from it   *)
(***************************************************************************)
InitStore ==
    /\ PreIdle
    /\ SplitIdle
    /\ PredIdle
    /\ trainer = None /\ results = <<>> /\ pc = 0 /\ log = {}
    /\ raised = {} /\ calls = {} /\ returned = None
    /\ store \in [{"models/random_forest_model.pkl"} ->
                     {NoFile} \cup {Pickled(a, None) : a \in Artifacts}]
    /\ writer = None
    /\ loaded = None
    /\ all_results = <<>>

NextStore ==
    \/ /\ \E a \in Artifacts : OpenFile(a, "models/random_forest_model.pkl")
       /\ UNCHANGED <<preVars, splitVars, predVars, trainer, results, pc, log, raised,
                      calls, returned, all_results>>
    \/ /\ Dump
       /\ UNCHANGED <<preVars, splitVars, predVars, trainer, results, pc, log, raised,
                      calls, returned, all_results>>
    \/ /\ ReturnTrue
       /\ UNCHANGED <<preVars, splitVars, predVars, trainer, results, pc, log, raised,
                      calls, returned, all_results>>
    \/ /\ ReturnFalse
       /\ UNCHANGED <<preVars, splitVars, predVars, trainer, results, pc, log, raised,
                      calls, returned, all_results>>
    \/ /\ LoadModel(DOMAIN store)
       /\ UNCHANGED <<preVars, splitVars, predVars, trainer, results, pc, log, raised,
                      calls, returned, all_results>>

SpecStore == InitStore /\ [][NextStore]_vars

(***************************************************************************)
(* Properties of the normalizer and the range resolver                     *)
(***************************************************************************)
\* C1: a second pass of the normalizer returns the table the first pass
\* returned, and after a pass no cell holds a token a pass rewrites.
C1_NormalizerIdempotent ==
    /\ passes >= 2 => df = prev_df
    /\ passes >= 1 =>
          \A i \in DOMAIN df.rows : \A c \in df.columns :
             ~(IsStr(df.rows[i][c]) /\ df.rows[i][c].s \in DOMAIN missing_markers)

\* a second pass has run on a table whose markers the first pass rewrote
C1_Witness == stage = "normalizer" /\ passes >= 2 /\ prev_df # data_ori

\* the numbers embedded in a string: runs of digits with an optional
\* decimal part, as floats, left to right
RECURSIVE EmbeddedNumbers(_, _)
EmbeddedNumbers(s, i) ==
    IF i > Len(s) THEN <<>>
    ELSE IF s[i] \notin Digits THEN EmbeddedNumbers(s, i + 1)
    ELSE LET j == SkipRun(s, i, Digits)
             k == IF j <= Len(s) /\ s[j] = "." THEN SkipRun(s, j + 1, Digits) ELSE j
         IN  <<ParseFloat(SubSeq(s, i, k - 1)).f>> \o EmbeddedNumbers(s, k)

\* C2: the range resolver replaces a string with a comma and no colon in a
\* listed field by the mean of the numbers embedded in it, and alters no
\* string with a colon and no field outside the list.
C2_RangeToMean ==
    stage = "parsed" =>
       \A i \in DOMAIN prev_df.rows : \A c \in prev_df.columns :
          LET v == prev_df.rows[i][c]
          IN  IF c \in numeric_columns /\ IsStr(v) /\ HasChar(",", v.s) /\ ~HasChar(":", v.s)
              THEN EmbeddedNumbers(v.s, 1) # <<>>
                      => df.rows[i][c] = Flt(np_mean(EmbeddedNumbers(v.s, 1)))
              ELSE df.rows[i][c] = v

(***************************************************************************)
(* Properties of the derived features.  prev_df is the table               *)
(* create_selected_features received, df the table it returned.            *)
(***************************************************************************)
\* a raw field of record i that is a string or a non-missing number
FieldPresent(i, c) == c \in prev_df.columns /\ ~IsNa(prev_df.rows[i][c])

\* C3: a record with none of concrete, crack, cover present derives the
\* concrete flag 0; a record with a non-missing crack derives 1.
C3_ConcreteFlag ==
    stage = "features" =>
       \A i \in DOMAIN df.rows :
          /\ (~FieldPresent(i, "concrete") /\ ~FieldPresent(i, "crack")
              /\ ~FieldPresent(i, "cover")) => NumEq(df.rows[i]["concrete"], 0)
          /\ FieldPresent(i, "crack") => NumEq(df.rows[i]["concrete"], 1)

Preloading(i) ==
    /\ "type_of_load" \in prev_df.columns
    /\ EqStr(prev_df.rows[i]["type_of_load"], <<"p", "r", "e", "l", "o", "a", "d", "i", "n", "g">>)

\* C4: a record whose type_of_load is "preloading" derives load_value 0,
\* whatever its stress, strain, modulus and strength fields hold.
C4_PreloadingZero ==
    stage = "features" =>
       \A i \in DOMAIN df.rows : Preloading(i) => NumEq(df.rows[i]["load_value"], 0)

\* a preloading record whose stress fields would give a positive fraction
C4_Witness ==
    /\ stage = "features"
    /\ \E i \in DOMAIN df.rows :
          /\ Preloading(i)
          /\ {"stress_or_strain", "value_load", "ultimate_tensile_strength"}
                \subseteq prev_df.columns
          /\ EqStr(prev_df.rows[i]["stress_or_strain"], <<"s", "t", "r", "e", "s", "s">>)
          /\ IsPositive(prev_df.rows[i]["value_load"])
          /\ IsPositive(prev_df.rows[i]["ultimate_tensile_strength"])
          /\ NumEq(df.rows[i]["load_value"], 0)

\* a number of any numeric type
Numeric(v) == v.t \in {"int", "int64", "float"}

\* C5: without a numeric weight percentage and with a numeric volume
\* percentage, volume 100 derives fiber_content 100 and volume 0 derives 0,
\* whatever the fibre and matrix types.
C5_VolumeBoundaries ==
    stage = "features" =>
       \A i \in DOMAIN df.rows :
          (/\ ~("Fiber_content_weight" \in prev_df.columns
                /\ Numeric(prev_df.rows[i]["Fiber_content_weight"]))
           /\ "Fiber_content_volume" \in prev_df.columns
           /\ Numeric(prev_df.rows[i]["Fiber_content_volume"]))
          => /\ NumEq(prev_df.rows[i]["Fiber_content_volume"], 100)
                => NumEq(df.rows[i]["fiber_content"], 100)
             /\ NumEq(prev_df.rows[i]["Fiber_content_volume"], 0)
                => NumEq(df.rows[i]["fiber_content"], 0)

\* the flag a type field must derive: 1 for the value one, 0 for the value
\* zero, missing for anything else
FlagFor(i, field, one, zero, flag) ==
    LET given == field \in prev_df.columns
        v == prev_df.rows[i][field]
    IN  IF given /\ EqStr(v, one) THEN NumEq(df.rows[i][flag], 1)
        ELSE IF given /\ EqStr(v, zero) THEN NumEq(df.rows[i][flag], 0)
        ELSE IsNa(df.rows[i][flag])

\* C6: Glass derives fibre flag 1 and Basalt 0, Vinyl ester derives matrix
\* flag 1 and Epoxy 0, and any other value leaves the flag missing.
C6_MaterialFlags ==
    stage = "features" =>
       \A i \in DOMAIN df.rows :
          /\ FlagFor(i, "Fiber_type", <<"G", "l", "a", "s", "s">>, <<"B", "a", "s", "a", "l", "t">>, "Glass_or_Basalt")
          /\ FlagFor(i, "Matrix_type", <<"V", "i", "n", "y", "l", " ", "e", "s", "t", "e", "r">>, <<"E", "p", "o", "x", "y">>, "Vinyl_ester_or_Epoxy")

\* a Glass / Vinyl ester record has derived the flags 1 and 1
C6_Witness ==
    /\ stage = "features"
    /\ {"Fiber_type", "Matrix_type"} \subseteq prev_df.columns
    /\ \E i \in DOMAIN df.rows :
          /\ EqStr(prev_df.rows[i]["Fiber_type"], <<"G", "l", "a", "s", "s">>)
          /\ EqStr(prev_df.rows[i]["Matrix_type"], <<"V", "i", "n", "y", "l", " ", "e", "s", "t", "e", "r">>)
          /\ NumEq(df.rows[i]["Glass_or_Basalt"], 1)
          /\ NumEq(df.rows[i]["Vinyl_ester_or_Epoxy"], 1)

(***************************************************************************)
(* Properties of the partitioner.  splits logs the result of every run on  *)
(* the dataset of n_samples rows.                                          *)
(***************************************************************************)
\* the subset a run assigned row x to
Subset(run, x) ==
    IF x \in Image(run.X_train) THEN "train"
    ELSE IF x \in Image(run.X_val) THEN "validation"
    ELSE IF x \in Image(run.X_test) THEN "test"
    ELSE "none"

\* C7: two runs on the same dataset with the same seed assign every row to
\* the same subset.
C7_Deterministic ==
    \A i, j \in DOMAIN splits :
       splits[i].seed = splits[j].seed =>
          /\ splits[i].status = splits[j].status
          /\ splits[i].status = "ok" =>
                \A x \in 1..n_samples : Subset(splits[i], x) = Subset(splits[j], x)

\* two completed runs on a dataset whose subsets hold several rows each
C7_Witness ==
    /\ Len(splits) >= 2
    /\ splits[1].status = "ok" /\ splits[2].status = "ok"
    /\ Len(splits[1].X_test) >= 2
    /\ Len(splits[2].X_val) >= 2

\* C8: whenever the two-stage split completes, train, validation and test
\* are pairwise disjoint and every row of the dataset is in exactly one.
C8_Partition ==
    \A i \in DOMAIN splits :
       splits[i].status = "ok" =>
          LET train == Image(splits[i].X_train)
              val == Image(splits[i].X_val)
              test == Image(splits[i].X_test)
          IN  /\ train \cap val = {} /\ train \cap test = {} /\ val \cap test = {}
              /\ train \cup val \cup test = 1..n_samples
              /\ Cardinality(train) = Len(splits[i].X_train)
              /\ Cardinality(val) = Len(splits[i].X_val)
              /\ Cardinality(test) = Len(splits[i].X_test)

\* a completed run with rows in each of the three subsets
C8_Witness ==
    \E i \in DOMAIN splits :
       /\ splits[i].status = "ok"
       /\ Len(splits[i].X_train) >= 2
       /\ Len(splits[i].X_val) >= 2
       /\ Len(splits[i].X_test) >= 2

\* k is within one row of round(num * n / den), whichever way a tie rounds
WithinOneOfRound(k, num, den, n) ==
    \A r \in 0..n :
       (2 * (den * r - num * n) <= den /\ 2 * (num * n - den * r) <= den)
          => (k - r <= 1 /\ r - k <= 1)

\* C9: for N >= 10 rows split with fractions 0.10 and 0.20 the three sizes
\* add up to N, the test size is within one row of round(0.10 N) and the
\* validation size within one row of round(0.20 N).
C9_Sizes ==
    n_samples >= 10 =>
       \A i \in DOMAIN splits :
          /\ splits[i].status = "ok"
          /\ Len(splits[i].X_train) + Len(splits[i].X_val) + Len(splits[i].X_test)
                = n_samples
          /\ WithinOneOfRound(Len(splits[i].X_test), 1, 10, n_samples)
          /\ WithinOneOfRound(Len(splits[i].X_val), 2, 10, n_samples)

\* a split of 70 rows, where the validation set takes 15 rows and
\* round(0.20 * 70) is 14
C9_Witness ==
    /\ n_samples = 70
    /\ Len(splits) >= 1
    /\ splits[1].status = "ok"
    /\ Len(splits[1].X_val) = 15
    /\ Len(splits[1].X_test) = 7

(***************************************************************************)
(* Properties of the predictor                                             *)
(***************************************************************************)
\* the features the loaded artifact requires
Required(p) ==
    IF p.feature_info # None /\ "feature_names" \in DOMAIN p.feature_info
    THEN Image(p.feature_info.feature_names)
    ELSE IF p.feature_info # None
    THEN Image(p.feature_info.numeric_features \o p.feature_info.categorical_features)
    ELSE p.model.columns

\* C10: predict_single on an input that lacks a feature the loaded artifact
\* requires reports the missing features by name and returns no number
\* (predict_single has no argument by which a caller could request the
\* fallback).
C10_MissingFeature ==
    (/\ prediction # None
     /\ predictor.model # None
     /\ Required(predictor) \ DOMAIN input_data # {})
    => /\ prediction.value = "None"
       /\ prediction.missing = Required(predictor) \ DOMAIN input_data

\* C11: a number predict_single returned from the emergency fallback is
\* marked as degraded: no call that takes the primary path returns the same
\* thing to its caller.
C11_FallbackMarked ==
    (prediction # None /\ prediction.path = "fallback" /\ prediction.value = "number")
    => ~\E a \in Artifacts : \E cols \in SUBSET InputKeys :
          \E input \in [cols -> {"num", "str"}] :
             /\ predict_single(a, input).path = "primary"
             /\ predict_single(a, input).value = prediction.value

(***************************************************************************)
(* Properties of the modeling dataset.  After step 4 df is the dataset     *)
(* create_model_dataset returned and prev_df the frame it received.        *)
(***************************************************************************)
\* C13: after the whole chain every feature and target cell of the modeling
\* dataset is missing or a number, and a flag cell is missing, 0 or 1; none
\* holds a string.
C13_NoRawStrings ==
    stage = "model" =>
       \A i \in DOMAIN df.rows : \A c \in df.columns \ {"Title"} :
          /\ df.rows[i][c].t \in {"nan", "int", "int64", "float"}
          /\ c \in {"Presence of concrete", "Presence of chloride ion", "Fibre type",
                    "Matrix type", "Surface treatment"}
                => IsNa(df.rows[i][c]) \/ NumEq(df.rows[i][c], 0) \/ NumEq(df.rows[i][c], 1)

\* C12: a raw record without a target value is not discarded by
\* predict_from_raw_data before prediction: its features are derived and
\* handed to the predictor.
C12_NoTargetFilterAtInference ==
    (/\ result # None
     /\ ("retention1" \notin input_data.columns \/ IsNa(input_data.rows[1]["retention1"])))
    => result.error # "Data preprocessing failed"

\* C14: whatever the size of the input, no row of create_model_dataset's
\* output is missing in the target and in every feature column.
C14_NoEmptyRows ==
    stage = "model" =>
       \A i \in DOMAIN df.rows :
          \E c \in df.columns \ {"Title"} : ~IsNa(df.rows[i][c])

\* C15: when the rule of one field raises on a record, the rules of the
\* remaining fields have still been applied to that record and to the
\* records after it: a "sand coated" surface is coded 0 and a numeric
\* retention1 is copied to Tensile_strength_retention.
C15_RulesIsolated ==
    stage = "features" =>
       \A i \in DOMAIN df.rows :
          (\E j \in 1..i : _process_fiber_content(InitFeatureColumns(prev_df), j).raised) =>
             /\ (/\ Has(prev_df, "surface_treatment")
                 /\ EqStr(prev_df.rows[i]["surface_treatment"],
                          <<"s", "a", "n", "d", " ", "c", "o", "a", "t", "e", "d">>))
                   => NumEq(df.rows[i]["surface_treatment"], 0)
             /\ (Has(prev_df, "retention1") /\ IsNumber(prev_df.rows[i]["retention1"]))
                   => df.rows[i]["Tensile_strength_retention"] = prev_df.rows[i]["retention1"]

(***************************************************************************)
(* Properties of the trainer                                               *)
(***************************************************************************)
\* the families whose stored dict holds test metrics
Trained(items) == {items[i][1] : i \in {j \in DOMAIN items : "r2_score" \in DOMAIN items[j][2]}}

\* the families whose training raised
Failing == {e.model_name : e \in raised}

\* C16: in train_model_with_hyperopt no fit, transform or search call ever
\* receives a test row, the final fit receives exactly the training and
\* validation rows, and the prediction and the three metrics are computed
\* on exactly the test rows.
C16_TestRowsUntouched ==
    \A c \in calls :
       LET split == splits[c.split]
       IN  /\ c.fn \in {"preprocessor.fit_transform", "preprocessor.transform", "search.fit",
                        "best_model.score", "pipeline.fit"}
                => c.rows \cap Image(split.X_test) = {}
           /\ c.fn = "pipeline.fit" => c.rows = Image(split.X_train) \cup Image(split.X_val)
           /\ c.fn \in {"pipeline.predict", "r2_score", "mean_squared_error",
                        "mean_absolute_error"}
                => c.rows = Image(split.X_test)

\* a family went through the search, the final fit and the metrics, with
\* validation rows and test rows present
C16_Witness ==
    \E c \in calls : \E d \in calls : \E e \in calls :
       /\ c.model_name = d.model_name /\ d.model_name = e.model_name
       /\ c.fn = "search.fit" /\ d.fn = "pipeline.fit" /\ e.fn = "r2_score"
       /\ d.rows # c.rows /\ e.rows # {}

\* C17: once train_all_models has returned with at least one family
\* trained, get_best_model returns the family with the greatest test R2,
\* the first of them in training order when several share it.
C17_BestByTestR2 ==
    (/\ returned # None /\ returned.get_best_model # None
     /\ Trained(trainer.evaluation_results) # {})
    => /\ returned.get_best_model.status = "ok"
       /\ LET items == trainer.evaluation_results
              ok == {i \in DOMAIN items : "r2_score" \in DOMAIN items[i][2]}
              best == CHOOSE i \in ok :
                         /\ \A j \in ok : items[j][2].r2_score <= items[i][2].r2_score
                         /\ \A j \in ok : j < i => items[j][2].r2_score < items[i][2].r2_score
          IN  returned.get_best_model.value[1] = items[best][1]

\* C18: when train_all_models has gone through its loop, every family whose
\* training did not raise has been trained and evaluated on the test rows,
\* whatever happened to the others, and every exception was printed with
\* its message and, when it was raised inside the training, stored with
\* its message in the failure record of its family.
C18_FailureIsolated ==
    (returned # None /\ returned.train_all_models # None) =>
       /\ \A k \in DOMAIN trainer.models :
             trainer.models[k] \notin Failing =>
                /\ trainer.models[k] \in Trained(results)
                /\ \E c \in calls : c.model_name = trainer.models[k] /\ c.fn = "r2_score"
       /\ \A e \in raised :
             /\ <<e.model_name, e.message>> \in log
             /\ e.inside => \E i \in DOMAIN results :
                               /\ results[i][1] = e.model_name
                               /\ results[i][2].status = "failed"
                               /\ results[i][2].error = e.message

\* one family raised inside its training and a later one was trained
C18_Witness ==
    /\ returned # None /\ returned.train_all_models # None
    /\ \E e \in raised : \E k \in DOMAIN trainer.models :
          /\ e.inside
          /\ trainer.models[1] = e.model_name
          /\ k > 1
          /\ trainer.models[k] \in Trained(results)

\* C19: when a family failed and another was trained, compare_models and
\* get_best_model complete normally and consider the trained families only.
C19_FailedOmitted ==
    (/\ returned # None /\ returned.train_all_models # None
     /\ Failing # {} /\ Trained(trainer.evaluation_results) # {})
    => /\ returned.compare_models # None =>
             /\ returned.compare_models.status = "ok"
             /\ Image(returned.compare_models.value) = Trained(trainer.evaluation_results)
       /\ returned.get_best_model # None =>
             /\ returned.get_best_model.status = "ok"
             /\ returned.get_best_model.value[1] \in Trained(trainer.evaluation_results)

\* C20: when every family failed, train_all_models does not return
\* normally.
C20_AllFailedSurfaced ==
    (/\ returned # None /\ returned.train_all_models # None
     /\ Trained(results) = {})
    => returned.train_all_models.status # "ok"

\* C21: when at least two families trained successfully, the results
\* train_all_models returns hold an 'ensemble' entry whose predictor
\* combines the fitted predictors of those families.
C21_EnsembleOfTrained ==
    (/\ returned # None /\ returned.train_all_models # None
     /\ Cardinality(Trained(returned.train_all_models.value)) >= 2)
    => \E i \in DOMAIN returned.train_all_models.value :
          /\ returned.train_all_models.value[i][1] = "ensemble"
          /\ returned.train_all_models.value[i][2].model
                = Trained(returned.train_all_models.value)

\* C29: a search runs only for a trainer created with
\* enable_hyperparameter_tuning = True, and the hyperparameter_optimized
\* field of every result is that flag.
C29_FlagHonoured ==
    trainer # None =>
       /\ \A c \in calls : c.fn = "search.fit" => trainer.enable_hyperparameter_tuning
       /\ \A i \in DOMAIN results :
             "hyperparameter_optimized" \in DOMAIN results[i][2]
                => results[i][2].hyperparameter_optimized
                      = trainer.enable_hyperparameter_tuning

(***************************************************************************)
(* Properties of the artifact store                                        *)
(***************************************************************************)
\* C22: at every moment the file at an artifact path is missing or a
\* complete artifact, the earlier one or the new one, also after a write
\* that failed part-way.
C22_AtomicPersist ==
    \A p \in DOMAIN store : store[p] = NoFile \/ store[p].written = MaxChunks

\* C23: after save_models, load_model on the file of a family that holds a
\* successful result succeeds and restores the test metrics of that result.
C23_RoundTrip ==
    (/\ returned # None /\ returned.save_models # None /\ loaded # None
     /\ loaded.model_path \in Trained(trainer.evaluation_results))
    => /\ loaded.ok
       /\ \E i \in DOMAIN trainer.evaluation_results :
             /\ trainer.evaluation_results[i][1] = loaded.model_path
             /\ loaded.model_metadata # None
             /\ loaded.model_metadata.r2 = trainer.evaluation_results[i][2].r2_score

(***************************************************************************)
(* Properties of the dataset assembler                                     *)
(***************************************************************************)
\* the rows of the input d that are not empty in every final column
C24_NonEmpty(d) ==
    {i \in DOMAIN d.rows : \E k \in DOMAIN final_columns :
                              ~IsNa(model_data(d, i, final_columns[k][1]))}

\* the rows of the input d that have a target value
C24_WithTarget(d) ==
    {i \in DOMAIN d.rows : ~IsNa(model_data(d, i, "Tensile_strength_retention"))}

\* the rows of the output, as the rows of the input d they are equal to
\* in every final column, in order
C24_IsRows(out, d, keep) ==
    LET index == SelectSeq([i \in DOMAIN d.rows |-> i], LAMBDA i : i \in keep)
    IN  /\ Len(out.rows) = Len(index)
        /\ \A j \in DOMAIN index : \A k \in DOMAIN final_columns :
              out.rows[j][final_columns[k][2]] = model_data(d, index[j], final_columns[k][1])

C25_Positive(i, c) ==
    /\ c \in prev_df.columns
    /\ Numeric(prev_df.rows[i][c])
    /\ ~IsNegative(prev_df.rows[i][c])
    /\ ~NumEq(prev_df.rows[i][c], 0)

\* C25: a record that is not preloading and whose mode is "strain" derives
\* load * 0.001 * tensile_modulus / ultimate_tensile_strength when the
\* three are numbers above zero, and load_value 0 when one of them is
\* missing, not a number or not above zero.
C25_StrainConversion ==
    stage = "features" =>
       \A i \in DOMAIN df.rows :
          (/\ ~Preloading(i)
           /\ "stress_or_strain" \in prev_df.columns
           /\ EqStr(prev_df.rows[i]["stress_or_strain"], <<"s", "t", "r", "a", "i", "n">>))
          => IF /\ C25_Positive(i, "value_load")
                /\ C25_Positive(i, "tensile_modulus")
                /\ C25_Positive(i, "ultimate_tensile_strength")
             THEN df.rows[i]["load_value"] =
                     Flt(FDiv(FMul(FMul(Magnitude(prev_df.rows[i]["value_load"]), FLit(1, 1000)),
                                   Magnitude(prev_df.rows[i]["tensile_modulus"])),
                              Magnitude(prev_df.rows[i]["ultimate_tensile_strength"])))
             ELSE NumEq(df.rows[i]["load_value"], 0)

\* the frame the rules of create_selected_features are applied to
C26_Input == InitFeatureColumns(prev_df)

\* lowercased text of field c of record i, empty when the record has none
C26_Text(i, c) ==
    IF c \in prev_df.columns /\ IsStr(prev_df.rows[i][c])
    THEN Lower(prev_df.rows[i][c].s) ELSE <<>>

\* the ingredient text of record i holds one of the chloride keywords
C26_ChlorideKeyword(i) ==
    AnyKeyword(<< <<"c", "l">>, <<"c", "h", "l", "o", "r", "i", "d", "e">>,
                  <<"n", "a", "c", "l">>, <<"c", "a", "c", "l", "2">>,
                  <<"m", "g", "c", "l", "2">>, <<"s", "a", "l", "t">> >>,
               C26_Text(i, "ingredient_1"))

\* C26: the chloride flag of a record is 0 or 1; it is 1 when the
\* ingredient text holds a chloride keyword, and it is 1 when the sea-water
\* inference has set it, whatever the ingredient scan finds.
C26_ChlorideMonotone ==
    stage = "features" =>
       \A i \in DOMAIN df.rows :
          /\ NumEq(df.rows[i]["Chloride_ion"], 0) \/ NumEq(df.rows[i]["Chloride_ion"], 1)
          /\ C26_ChlorideKeyword(i) => NumEq(df.rows[i]["Chloride_ion"], 1)
          /\ ph_and_chloride_locals(C26_Input, i).sea => NumEq(df.rows[i]["Chloride_ion"], 1)

\* a record the sea-water inference flags and whose ingredient text holds
\* no chloride keyword
C26_Witness ==
    /\ stage = "features"
    /\ \E i \in DOMAIN df.rows :
          /\ ph_and_chloride_locals(C26_Input, i).sea
          /\ C26_Text(i, "ingredient_1") # <<>>
          /\ ~C26_ChlorideKeyword(i)
          /\ NumEq(df.rows[i]["Chloride_ion"], 1)

\* field c of record i is a number, of any numeric type
C27_Numeric(i, c) == c \in prev_df.columns /\ Numeric(prev_df.rows[i][c])

\* the text mentions sea water
C27_SeaWater(text) ==
    \/ Contains(<<"s", "e", "a", " ", "w", "a", "t", "e", "r">>, text)
    \/ Contains(<<"s", "e", "a", "w", "a", "t", "e", "r">>, text)

\* C27: a record of a solution environment without a numeric
\* solution_condition, pH_1, pH, ph or PH (and without a numeric pHafter)
\* whose solution description, or whose ingredient description when it has
\* no solution description, mentions sea water derives pH 7.0 and chloride
\* flag 1.
C27_SeaWaterInference ==
    stage = "features" =>
       \A i \in DOMAIN df.rows :
          (/\ ~ph_and_chloride_locals(C26_Input, i).is_concrete_environment
           /\ \A c \in {"solution_condition", "pH_1", "pH", "ph", "PH", "pHafter"} :
                 ~C27_Numeric(i, c)
           /\ C27_SeaWater(IF C26_Text(i, "solution_condition") # <<>>
                           THEN C26_Text(i, "solution_condition")
                           ELSE C26_Text(i, "ingredient_1")))
          => /\ NumEq(df.rows[i]["pH_of_condition_enviroment"], 7)
             /\ NumEq(df.rows[i]["Chloride_ion"], 1)

\* the value of the numeric field c of record i
C28_Value(i, c) == Magnitude(prev_df.rows[i][c])

\* the pH of record i before pHafter is taken into account
C28_Chosen(i) ==
    IF ph_and_chloride_locals(C26_Input, i).is_concrete_environment
    THEN IF C27_Numeric(i, "pH_of_concrete") THEN C28_Value(i, "pH_of_concrete")
         ELSE FFromInt(13)
    ELSE IF C27_Numeric(i, "solution_condition") THEN C28_Value(i, "solution_condition")
    ELSE IF C27_Numeric(i, "pH_1") THEN C28_Value(i, "pH_1")
    ELSE IF C27_Numeric(i, "pH") THEN C28_Value(i, "pH")
    ELSE IF C27_Numeric(i, "ph") THEN C28_Value(i, "ph")
    ELSE IF C27_Numeric(i, "PH") THEN C28_Value(i, "PH")
    ELSE FFromInt(7)

\* C28: the derived pH is never missing: it is pH_of_concrete if numeric,
\* else 13.0, in a concrete environment; in a solution environment the
\* numeric solution_condition, else the first numeric of pH_1, pH, ph, PH,
\* else 7.0; averaged with pHafter when pHafter is numeric.
C28_PhPrecedence ==
    stage = "features" =>
       \A i \in DOMAIN df.rows :
          df.rows[i]["pH_of_condition_enviroment"] =
             Flt(IF C27_Numeric(i, "pHafter")
                 THEN FDiv(FAdd(C28_Chosen(i), C28_Value(i, "pHafter")), FFromInt(2))
                 ELSE C28_Chosen(i))

(***************************************************************************)
(* Properties of the experiment scripts                                    *)
(***************************************************************************)
\* C30: after every run of run_single_experiment and every strategy
\* iteration of run_hyperparameter_optimization, finished, failed or
\* skipped, a new trainer reads from the global config the model
\* parameters, TEST_SIZE, CV_FOLDS, search method and iteration count it
\* read before the run.
C30_ConfigRestored ==
    [][TrainerReads(config') = TrainerReads(config)]_vars

====
